---- MODULE Spec2Model ----
(***************************************************************************)
(* A model of app.py, the Flask/SQLite ETF dashboard.                      *)
(*                                                                         *)
(* State: the four SQLite tables (trades, holdings, dividends, dca), the   *)
(* AUTOINCREMENT counters, the last HTTP response, and the call records of *)
(* the two pure computations (goal estimator, fill-ratio computation).     *)
(*                                                                         *)
(* Numbers.  Python floats are modelled by exact arithmetic: money and     *)
(* prices are integers, quotients are rationals <<n, d>> in lowest terms.  *)
(* (1 + r) ** n of the goal estimator is modelled in fixed point (SCALE).  *)
(***************************************************************************)
EXTENDS Integers, Sequences, FiniteSets, TLC

VARIABLES trades, holdings, dividends, dca, seq, resp, goal, fill, quote, dash

vars == <<trades, holdings, dividends, dca, seq, resp, goal, fill, quote, dash>>

(***************************************************************************)
(* Bounds of the model.                                                    *)
(***************************************************************************)
\* how many rows a table's AUTOINCREMENT counter may hand out in a run
MaxId == 2

(***************************************************************************)
(* Program constants (app.py lines 15-26).  Money is in NTD, the rate is   *)
(* in units of 1/SCALE (600 = 0.06).                                       *)
(***************************************************************************)
HOUSE_TARGET_LOW == 6500000
HOUSE_TARGET_HIGH == 7500000
ANNUAL_RETURN == 600
MONTHLY_DCA == 5000

\* fixed-point scale of the model's (1 + r) ** n and of rates
SCALE == 10000

DEFAULT_PRICES(symbol) ==
  CASE symbol = "0050" -> 150
    [] symbol = "0056" -> 35
    [] symbol = "00878" -> 23
    [] symbol = "00919" -> 24
    [] OTHER -> 0

(***************************************************************************)
(* Exact arithmetic helpers (Python float arithmetic, without rounding).   *)
(***************************************************************************)
Abs(x) == IF x < 0 THEN -x ELSE x

Max(a, b) == IF a >= b THEN a ELSE b

RECURSIVE GCD(_, _)
GCD(a, b) == IF b = 0 THEN a ELSE GCD(b, a % b)

\* the rational n/d (d # 0) in lowest terms with a positive denominator
Rat(n, d) ==
  LET g == GCD(Abs(n), Abs(d))
      s == IF d < 0 THEN -1 ELSE 1
  IN  <<(s * n) \div g, (s * d) \div g>>

RatOfInt(i) == <<i, 1>>
RatAdd(a, b) == Rat(a[1] * b[2] + b[1] * a[2], a[2] * b[2])
RatSub(a, b) == Rat(a[1] * b[2] - b[1] * a[2], a[2] * b[2])
RatMul(a, b) == Rat(a[1] * b[1], a[2] * b[2])
RatDiv(a, b) == Rat(a[1] * b[2], a[2] * b[1])
RatGt0(a) == a[1] > 0
RatMax0(a) == IF a[1] > 0 THEN a ELSE RatOfInt(0)

\* floor(a * b / c) for a, b >= 0 and c > 0, without leaving 32 bits
MulDiv(a, b, c) ==
  (a \div c) * b + (a % c) * (b \div c) + ((a % c) * (b % c)) \div c

RECURSIVE SumOver(_, _)
\* the sum of f[x] over the finite set S
SumOver(S, f) ==
  IF S = {} THEN 0
  ELSE LET x == CHOOSE y \in S : TRUE
       IN  f[x] + SumOver(S \ {x}, f)

(***************************************************************************)
(* Form input.  A numeric form field arrives as text: empty, not a number, *)
(* an integer numeral ("-5"), or a decimal numeral ("100.0").  A text      *)
(* field arrives as a string, possibly only whitespace.                    *)
(***************************************************************************)
RawEmpty == [kind |-> "empty", val |-> 0]
RawText == [kind |-> "text", val |-> 0]
RawInt(v) == [kind |-> "int", val |-> v]
RawDec(v) == [kind |-> "dec", val |-> v]

\* request.form.get(name, "").strip()
Strip(s) == IF s = " " THEN "" ELSE s

\* int(raw) if raw else 0, ValueError -> 0     (int("100.0") raises)
ParseInt(raw) == IF raw.kind = "int" THEN raw.val ELSE 0

\* float(raw) if raw else 0.0, ValueError -> 0.0
ParseFloat(raw) == IF raw.kind \in {"int", "dec"} THEN raw.val ELSE 0

\* datetime.now().strftime("%Y-%m-%d %H:%M:%S")
NowTs == "2026-11-01 12:00:00"

(***************************************************************************)
(* Responses.                                                              *)
(***************************************************************************)
NoData == [etfs |-> <<>>]

Response(kind, status, data) == [kind |-> kind, status |-> status, data |-> data]

RespNone == Response("none", 0, NoData)
RespPage(name) == Response(name, 200, NoData)
RespRedirect == Response("redirect", 302, NoData)
RespNotFound == Response("notfound", 404, NoData)
RespError == Response("error", 500, NoData)

(***************************************************************************)
(* Table access.                                                           *)
(***************************************************************************)
Ids(table) == {r.id : r \in table}

RowById(table, id) == CHOOSE r \in table : r.id = id

\* INSERT with an AUTOINCREMENT primary key: the next id of that table
NextId(name) == seq[name] + 1

(***************************************************************************)
(* Goal projection: estimate_years_to_target (lines 318-333).              *)
(*                                                                         *)
(* years advances in steps of 0.25, which floats represent exactly, so the *)
(* loop variable is modelled by its number of quarters yq (years = yq/4).  *)
(* The returned value is modelled in tenths of a year (round(years, 1)).   *)
(***************************************************************************)
\* while years <= 80
HORIZON_YEARS == 80
\* step = 0.25
STEPS_PER_YEAR == 4

LastQuarter == HORIZON_YEARS * STEPS_PER_YEAR

\* the annual rates (in 1/SCALE) the model tabulates (1 + r) ** n for
Rates == {200, 600}

RECURSIVE Bisect(_, _, _)
\* the largest x in lo..hi with x * x <= n
Bisect(lo, hi, n) ==
  IF lo >= hi THEN lo
  ELSE LET mid == (lo + hi + 1) \div 2
       IN  IF mid * mid <= n THEN Bisect(mid, hi, n) ELSE Bisect(lo, mid - 1, n)

ISqrt(n) == Bisect(0, 46340, n)

\* (1 + r) ** 0.25, scaled by SCALE
QuarterFactor(r) == ISqrt(ISqrt((SCALE + r) * SCALE) * SCALE)

RECURSIVE PowFix(_, _)
\* q ** k for a fixed-point q, by repeated squaring
PowFix(q, k) ==
  IF k = 0 THEN SCALE
  ELSE LET h == PowFix(q, k \div 2)
           sq == MulDiv(h, h, SCALE)
       IN  IF k % 2 = 0 THEN sq ELSE MulDiv(sq, q, SCALE)

\* (1 + r) ** n for n = yq / 4, scaled by SCALE
GrowthTable ==
  [r \in Rates |-> [yq \in 0..(LastQuarter + 1) |-> PowFix(QuarterFactor(r), yq)]]

Pow(r, yq) == GrowthTable[r][yq]

\* fv_lump = current_value * (1 + r) ** n
FvLump(current_value, r, yq) == MulDiv(Pow(r, yq), current_value, SCALE)

\* fv_dca = yearly_invest * ((1 + r) ** n - 1) / r
FvDca(yearly_invest, r, yq) ==
  MulDiv(MulDiv(Pow(r, yq) - SCALE, SCALE, r), yearly_invest, SCALE)

FvTotal(current_value, monthly_invest, r, yq) ==
  FvLump(current_value, r, yq) + FvDca(monthly_invest * 12, r, yq)

\* a rounding that truncates instead of rounding to nearest, ties to even
RoundTenthsDown(yq) == (5 * yq) \div 2

\* round(years, 1) for years = yq / 4, in tenths: Python rounds the exact
\* ties (odd yq) to the even tenth: round(0.25, 1) = 0.2, round(0.75, 1) = 0.8
RoundTenths(yq) ==
  IF (5 * yq) % 2 = 0 THEN (5 * yq) \div 2
  ELSE LET lo == (5 * yq - 1) \div 2
       IN  IF lo % 2 = 0 THEN lo ELSE lo + 1

Absent(iters) == [present |-> FALSE, tenths |-> 0, yq |-> 0, iters |-> iters]

Found(yq) == [present |-> TRUE, tenths |-> RoundTenths(yq), yq |-> yq, iters |-> yq + 1]

\* the loop with the test fv_total > target
LoopIterStrict(current_value, monthly_invest, r, target, yq) ==
  IF yq > LastQuarter THEN [done |-> TRUE, res |-> Absent(yq)]
  ELSE IF FvTotal(current_value, monthly_invest, r, yq) > target
       THEN [done |-> TRUE, res |-> Found(yq)]
       ELSE [done |-> FALSE, res |-> Absent(yq)]

\* the loop with the test fv_total <= target
LoopIterFlipped(current_value, monthly_invest, r, target, yq) ==
  IF yq > LastQuarter THEN [done |-> TRUE, res |-> Absent(yq)]
  ELSE IF FvTotal(current_value, monthly_invest, r, yq) <= target
       THEN [done |-> TRUE, res |-> Found(yq)]
       ELSE [done |-> FALSE, res |-> Absent(yq)]

\* one evaluation of the loop condition and, if it holds, of the loop body,
\* at years = yq / 4: the loop ends here (done) or goes on to yq + 1
LoopIter(current_value, monthly_invest, r, target, yq) ==
  IF yq > LastQuarter THEN [done |-> TRUE, res |-> Absent(yq)]
  ELSE IF FvTotal(current_value, monthly_invest, r, yq) >= target
       THEN [done |-> TRUE, res |-> Found(yq)]
       ELSE [done |-> FALSE, res |-> Absent(yq)]

RECURSIVE ScanYears(_, _, _, _, _, _)
\* the iterations at yq = lo, lo + 1, ..., hi in order, up to the first that
\* ends the loop
ScanYears(current_value, monthly_invest, r, target, lo, hi) ==
  IF lo = hi THEN LoopIter(current_value, monthly_invest, r, target, lo)
  ELSE LET mid == (lo + hi) \div 2
           first == ScanYears(current_value, monthly_invest, r, target, lo, mid)
       IN  IF first.done THEN first
           ELSE ScanYears(current_value, monthly_invest, r, target, mid + 1, hi)

\* the scan started at years = step instead of years = 0
EstimateSkipsYearZero(current_value, monthly_invest, annual_return, target) ==
  ScanYears(current_value, monthly_invest, annual_return, target, 1, LastQuarter + 1).res

estimate_years_to_target(current_value, monthly_invest, annual_return, target) ==
  ScanYears(current_value, monthly_invest, annual_return, target, 0, LastQuarter + 1).res

(***************************************************************************)
(* Dividend queries.                                                       *)
(***************************************************************************)
\* the date strings of the model in SQLite's (bytewise) text order; the first
\* is not in the %Y-%m-%d form
DateOrder == <<"16/09/2025", "2025-09-16", "2026-03-17">>

DateRank(d) == CHOOSE i \in 1..Len(DateOrder) : DateOrder[i] = d

\* datetime.strptime(ex_date_str, "%Y-%m-%d") succeeds
WellFormedDate(d) == d \in {"2025-09-16", "2026-03-17"}

\* ORDER BY date DESC, id ASC: the tie on the date goes to the older entry
DateDescIdAsc(a, b) ==
  \/ DateRank(a.date) > DateRank(b.date)
  \/ (a.date = b.date /\ a.id < b.id)

\* ORDER BY date DESC, id DESC: a comes before b
DateIdDesc(a, b) ==
  \/ DateRank(a.date) > DateRank(b.date)
  \/ (a.date = b.date /\ a.id > b.id)

\* SELECT * FROM dividends WHERE symbol = ? ORDER BY date DESC, id DESC LIMIT 1
\* (<<>> for None, <<row>> for a row)
get_last_dividend_event(symbol) ==
  LET evs == {e \in dividends : e.symbol = symbol}
  IN  IF evs = {} THEN <<>>
      ELSE <<CHOOSE e \in evs : \A o \in evs \ {e} : DateIdDesc(e, o)>>

(***************************************************************************)
(* Fill ratio: get_pre_ex_close_price and compute_fill_infos.              *)
(* The historical lookup ticker.history(start, end) is the environment's:  *)
(* it yields no rows, rows whose last close is some price, or it raises.   *)
(***************************************************************************)
HistEmpty == [kind |-> "empty", close |-> 0]
HistRaise == [kind |-> "raise", close |-> 0]
HistClose(p) == [kind |-> "close", close |-> p]

\* get_pre_ex_close_price: "raise" (strptime or the lookup raised), "none"
\* (data.empty) or the last close
get_pre_ex_close_price(ex_date_str, hist) ==
  IF ~WellFormedDate(ex_date_str) THEN [kind |-> "raise", close |-> 0]
  ELSE IF hist.kind = "raise" THEN [kind |-> "raise", close |-> 0]
  ELSE IF hist.kind = "empty" THEN [kind |-> "none", close |-> 0]
  ELSE [kind |-> "close", close |-> hist.close]

\* ex_ref_price = pre_close - div_per_share, with the sign slipped
ExRefPricePlus(pre_close, div_per_share) == RatAdd(RatOfInt(pre_close), div_per_share)

\* ex_ref_price = pre_close - div_per_share
ExRefPrice(pre_close, div_per_share) == RatSub(RatOfInt(pre_close), div_per_share)

\* fill_ratio = filled_amount / div_per_share * 100 if div_per_share > 0 else 0.0
FillRatio(filled_amount, div_per_share) ==
  IF RatGt0(div_per_share)
  THEN RatMul(RatDiv(filled_amount, div_per_share), RatOfInt(100))
  ELSE RatOfInt(0)

\* gap_to_fill without the clip at 0
GapToFillUnclipped(pre_close, now_price) == pre_close - now_price

\* gap_to_fill = max(0.0, pre_close - now_price)
GapToFill(pre_close, now_price) == Max(0, pre_close - now_price)

\* the record appended for row e, its last event and the pre-ex close
FillInfo(e, last_ev, pre_close) ==
  LET div_per_share == Rat(last_ev.cash, e.shares)
      ex_ref_price == ExRefPrice(pre_close, div_per_share)
      filled_amount == RatSub(RatOfInt(e.price), ex_ref_price)
  IN  [symbol |-> e.symbol, name |-> e.name, last_date |-> last_ev.date,
       pre_close |-> pre_close, now_price |-> e.price,
       div_per_share |-> div_per_share,
       fill_ratio |-> FillRatio(filled_amount, div_per_share),
       gap_to_fill |-> GapToFill(pre_close, e.price)]

\* one iteration of the loop over etf_rows: "skip" (continue), "raise" (the
\* lookup's exception leaves compute_fill_infos) or "info"
FillRow(e, hist) ==
  LET last_ev == get_last_dividend_event(e.symbol)
  IN  IF last_ev = <<>> THEN [kind |-> "skip"]
      ELSE IF e.shares <= 0 THEN [kind |-> "skip"]
      ELSE LET pre == get_pre_ex_close_price(last_ev[1].date, hist)
           IN  IF pre.kind = "raise" THEN [kind |-> "raise"]
               ELSE IF pre.kind = "none" THEN [kind |-> "skip"]
               ELSE [kind |-> "info", info |-> FillInfo(e, last_ev[1], pre.close)]

RECURSIVE FillLoop(_, _, _, _)
\* the loop from row i on, with the list built so far
FillLoop(etf_rows, hists, i, fill_infos) ==
  IF i > Len(etf_rows) THEN [ok |-> TRUE, infos |-> fill_infos]
  ELSE LET step == FillRow(etf_rows[i], hists[i])
       IN  IF step.kind = "raise" THEN [ok |-> FALSE, infos |-> <<>>]
           ELSE IF step.kind = "skip" THEN FillLoop(etf_rows, hists, i + 1, fill_infos)
           ELSE FillLoop(etf_rows, hists, i + 1, Append(fill_infos, step.info))

\* compute_fill_infos(etf_rows), hists[i] the lookup's outcome for row i;
\* ok = FALSE: an exception propagates to the caller
compute_fill_infos(etf_rows, hists) == FillLoop(etf_rows, hists, 1, <<>>)


(***************************************************************************)
(* Text helpers.  TLA+ strings cannot be cut or joined, so substr and the  *)
(* f-string are tabulated for the strings of the model.                    *)
(***************************************************************************)
\* substr(s, 1, 4)
Prefix4(s) ==
  CASE s \in {"2025-09-16", "2025-09-16 00:00:00"} -> "2025"
    [] s \in {"2026-03-17", "2026-03-17 00:00:00", NowTs} -> "2026"
    [] s \in {"16/09/2025", "16/09/2025 00:00:00"} -> "16/0"
    [] OTHER -> ""

\* f"{date_str} 00:00:00"
TsAtMidnight(date_str) ==
  CASE date_str = "2025-09-16" -> "2025-09-16 00:00:00"
    [] date_str = "2026-03-17" -> "2026-03-17 00:00:00"
    [] OTHER -> "16/09/2025 00:00:00"

\* datetime.now().year
CurrentYear == 2026

\* str(year)
YearStr(year) == IF year = 2026 THEN "2026" ELSE IF year = 2025 THEN "2025" ELSE "0000"

\* the symbols of the model in SQLite's (bytewise) text order
SymbolOrder == <<"0050", "0056", "2330">>

SymbolRank(y) == CHOOSE i \in 1..Len(SymbolOrder) : SymbolOrder[i] = y

(***************************************************************************)
(* Read queries (lines 124-238).                                           *)
(***************************************************************************)
\* the sequences listing every row of the finite set S exactly once
Listings(S) ==
  {q \in [1..Cardinality(S) -> S] : \A i, j \in DOMAIN q : i < j => q[i] # q[j]}

\* SELECT * FROM holdings ORDER BY symbol: the possible result lists (SQLite
\* leaves the order of rows with equal symbols open)
get_all_holdings ==
  {q \in Listings(holdings) :
     \A i, j \in DOMAIN q : i < j => SymbolRank(q[i].symbol) <= SymbolRank(q[j].symbol)}

\* SELECT symbol, SUM(shares), SUM(amount), SUM(reinvest) FROM trades GROUP BY symbol
\* over the table tbl
Summary(tbl) ==
  [y \in {t.symbol : t \in tbl} |->
     LET rows == {t \in tbl : t.symbol = y}
     IN  [add_shares |-> SumOver(rows, [t \in rows |-> t.shares]),
          add_amount |-> SumOver(rows, [t \in rows |-> t.amount]),
          add_reinvest |-> SumOver(rows, [t \in rows |-> t.reinvest])]]

\* total_new_cash = max(0.0, total_amount - total_reinvest)
TradeTotals(rows) ==
  LET total_amount == SumOver(rows, [t \in rows |-> t.amount])
      total_reinvest == SumOver(rows, [t \in rows |-> t.reinvest])
  IN  [total_amount |-> total_amount, total_reinvest |-> total_reinvest,
       total_new_cash |-> Max(0, total_amount - total_reinvest)]

get_trades_summary(tbl) == [summary |-> Summary(tbl), totals |-> TradeTotals(tbl)]

\* SUM(cash) without the WHERE clause
SymbolTotalUnfiltered(tbl, symbol) == SumOver(tbl, [d \in tbl |-> d.cash])

\* the cash of the oldest matching row in place of the SUM
SymbolTotalOldest(tbl, symbol) ==
  LET evs == {d \in tbl : d.symbol = symbol}
  IN  IF evs = {} THEN 0
      ELSE (CHOOSE d \in evs : \A o \in evs : d.id <= o.id).cash

\* SELECT COALESCE(SUM(cash),0) FROM dividends WHERE symbol = ?, over the
\* table tbl
SymbolTotal(tbl, symbol) ==
  LET evs == {d \in tbl : d.symbol = symbol}
  IN  SumOver(evs, [d \in evs |-> d.cash])

get_dividends_total(symbol) == SymbolTotal(dividends, symbol)

\* the SUM joined to the holdings: events of symbols without a holding are
\* left out
YearTotalHeld(tbl, year) ==
  LET evs == {d \in tbl : Prefix4(d.date) = YearStr(year)
                            /\ d.symbol \in {h.symbol : h \in holdings}}
  IN  SumOver(evs, [d \in evs |-> d.cash])

\* SELECT COALESCE(SUM(cash),0) FROM dividends WHERE substr(date,1,4) = ?,
\* over the table tbl
YearTotal(tbl, year) ==
  LET evs == {d \in tbl : Prefix4(d.date) = YearStr(year)}
  IN  SumOver(evs, [d \in evs |-> d.cash])

get_dividends_total_by_year(year) == YearTotal(dividends, year)

\* SELECT COALESCE(SUM(amount),0) FROM dca
get_dca_total == SumOver(dca, [r \in dca |-> r.amount])

(***************************************************************************)
(* Price feed: fetch_price_tw (lines 104-119).  ticker.history(period) is  *)
(* the environment's: it raises, yields no close, or yields a last close.  *)
(***************************************************************************)
FeedRaise == [kind |-> "raise", close |-> 0]
FeedEmpty == [kind |-> "empty", close |-> 0]
FeedClose(p) == [kind |-> "close", close |-> p]

\* a value of the Close column: missing (NaN) or the close p
NaN == [nan |-> TRUE, value |-> 0]

Close(p) == [nan |-> FALSE, value |-> p]

\* history returned the Close column closes (oldest first); <<>> is the
\* empty frame
FeedData(closes) == [kind |-> "data", close |-> 0, closes |-> closes]

\* data["Close"].dropna()
DropNa(closes) == SelectSeq(closes, LAMBDA c : ~c.nan)

\* the first close of the period in place of the last
fetch_price_tw_first(symbol, outcome) ==
  IF outcome.kind = "close" THEN outcome.close
  ELSE IF outcome.kind = "data" /\ DropNa(outcome.closes) # <<>>
  THEN DropNa(outcome.closes)[1].value
  ELSE DEFAULT_PRICES(symbol)

\* the last close that is not missing; DEFAULT_PRICES.get(symbol, 0.0) when
\* history raised, returned the empty frame or only missing closes
fetch_price_tw(symbol, outcome) ==
  IF outcome.kind = "close" THEN outcome.close
  ELSE IF outcome.kind = "data" /\ DropNa(outcome.closes) # <<>>
  THEN DropNa(outcome.closes)[Len(DropNa(outcome.closes))].value
  ELSE DEFAULT_PRICES(symbol)

(***************************************************************************)
(* compute_dashboard (lines 338-445).                                      *)
(***************************************************************************)
\* x / total * 100 without the guard: a zero denominator is kept
PctOfUnguarded(x, total) == IF total # 0 THEN Rat(x * 100, total) ELSE <<x * 100, 0>>

\* the quotient x / total, not multiplied by 100
PctOfFraction(x, total) == IF total # 0 THEN Rat(x, total) ELSE RatOfInt(0)

\* (x / total * 100) if total else 0.0
PctOf(x, total) == IF total # 0 THEN Rat(x * 100, total) ELSE RatOfInt(0)

\* the per-symbol ledger sums of get_trades_summary, 0 for a symbol without
\* trades
AddShares(symbol) ==
  IF symbol \in DOMAIN Summary(trades) THEN Summary(trades)[symbol].add_shares ELSE 0

AddAmount(symbol) ==
  IF symbol \in DOMAIN Summary(trades) THEN Summary(trades)[symbol].add_amount ELSE 0

\* a row from the position (shares, cost_total) in place of the holding's own
PositionRow(h, price, shares, cost_total) ==
  LET mv == shares * price
      profit == mv - cost_total
      div_total == get_dividends_total(h.symbol)
      profit_with_div == profit + div_total
  IN  [symbol |-> h.symbol, name |-> h.name, shares |-> shares, price |-> price,
       cost_total |-> cost_total, mv |-> mv, profit |-> profit,
       pl_pct |-> IF cost_total # 0 THEN Rat(profit * 100, cost_total) ELSE RatOfInt(0),
       div_total |-> div_total,
       profit_with_div |-> profit_with_div,
       pl_with_div_pct |-> IF cost_total # 0 THEN Rat(profit_with_div * 100, cost_total)
                           ELSE RatOfInt(0)]

\* a row that adds the whole ledger, whatever the trades' symbols
EtfRowAllLedger(h, price) ==
  PositionRow(h, price,
              h.shares + SumOver(trades, [t \in trades |-> t.shares]),
              h.shares * h.cost + SumOver(trades, [t \in trades |-> t.amount]))

\* a row whose cost basis is the ledger's amount alone once the symbol has a
\* trade
EtfRowLedgerCost(h, price) ==
  IF h.symbol \in DOMAIN Summary(trades)
  THEN PositionRow(h, price, h.shares + AddShares(h.symbol), AddAmount(h.symbol))
  ELSE PositionRow(h, price, h.shares, h.shares * h.cost)

\* a row that adds the symbol's ledger sums without any guard
EtfRowMerged(h, price) ==
  PositionRow(h, price, h.shares + AddShares(h.symbol),
              h.shares * h.cost + AddAmount(h.symbol))

\* the row appended to etf_rows for holding h at the given price
EtfRow(h, price) ==
  LET shares == h.shares
      cost_total == shares * h.cost
      mv == shares * price
      profit == mv - cost_total
      div_total == get_dividends_total(h.symbol)
      profit_with_div == profit + div_total
  IN  [symbol |-> h.symbol, name |-> h.name, shares |-> shares, price |-> price,
       cost_total |-> cost_total, mv |-> mv, profit |-> profit,
       pl_pct |-> PctOf(profit, cost_total), div_total |-> div_total,
       profit_with_div |-> profit_with_div,
       pl_with_div_pct |-> PctOf(profit_with_div, cost_total)]

RECURSIVE SumSeq(_, _)
\* the running total of field-values f[i] over i = 1..n
SumSeq(f, n) == IF n = 0 THEN 0 ELSE SumSeq(f, n - 1) + f[n]

\* the totals with total_profit_with_div left at total_profit
TotalsWithoutDividends(etf_rows) ==
  LET n == Len(etf_rows)
      total_cost == SumSeq([i \in 1..n |-> etf_rows[i].cost_total], n)
      total_mv == SumSeq([i \in 1..n |-> etf_rows[i].mv], n)
      total_dividends == SumSeq([i \in 1..n |-> etf_rows[i].div_total], n)
      total_profit == total_mv - total_cost
  IN  [total_cost |-> total_cost, total_mv |-> total_mv,
       total_profit |-> total_profit,
       total_profit_with_div |-> total_profit,
       total_pl_pct |-> PctOf(total_profit, total_cost),
       total_pl_with_div_pct |-> PctOf(total_profit, total_cost),
       total_dividends |-> total_dividends]

\* the portfolio totals accumulated in the loop over the holdings
Totals(etf_rows) ==
  LET n == Len(etf_rows)
      total_cost == SumSeq([i \in 1..n |-> etf_rows[i].cost_total], n)
      total_mv == SumSeq([i \in 1..n |-> etf_rows[i].mv], n)
      total_dividends == SumSeq([i \in 1..n |-> etf_rows[i].div_total], n)
      total_profit == total_mv - total_cost
      total_profit_with_div == total_profit + total_dividends
  IN  [total_cost |-> total_cost, total_mv |-> total_mv,
       total_profit |-> total_profit,
       total_profit_with_div |-> total_profit_with_div,
       total_pl_pct |-> PctOf(total_profit, total_cost),
       total_pl_with_div_pct |-> PctOf(total_profit_with_div, total_cost),
       total_dividends |-> total_dividends]

DivCompare ==
  LET current_year == CurrentYear
      last_year == current_year - 1
      div_last_year == get_dividends_total_by_year(last_year)
      div_this_year == get_dividends_total_by_year(current_year)
  IN  [current_year |-> current_year, last_year |-> last_year,
       div_last_year |-> div_last_year, div_this_year |-> div_this_year,
       diff_div |-> div_this_year - div_last_year]

\* the comparison without the test of dca_total_all: computed whenever
\* total_mv > 0, a zero denominator kept
DcaCompareUnguarded(total_mv) ==
  LET dca_total_all == get_dca_total
  IN  IF total_mv > 0
      THEN [dca_total_all |-> dca_total_all, present |-> TRUE,
            profit_vs_dca |-> total_mv - dca_total_all,
            pl_vs_dca_pct |-> IF dca_total_all # 0
                              THEN Rat((total_mv - dca_total_all) * 100, dca_total_all)
                              ELSE <<(total_mv - dca_total_all) * 100, 0>>]
      ELSE [dca_total_all |-> dca_total_all, present |-> FALSE,
            profit_vs_dca |-> 0, pl_vs_dca_pct |-> RatOfInt(0)]

\* profit_vs_dca and pl_vs_dca_pct are None (present = FALSE) unless
\* dca_total_all > 0 and total_mv > 0
DcaCompare(total_mv) ==
  LET dca_total_all == get_dca_total
  IN  IF dca_total_all > 0 /\ total_mv > 0
      THEN [dca_total_all |-> dca_total_all, present |-> TRUE,
            profit_vs_dca |-> total_mv - dca_total_all,
            pl_vs_dca_pct |-> Rat((total_mv - dca_total_all) * 100, dca_total_all)]
      ELSE [dca_total_all |-> dca_total_all, present |-> FALSE,
            profit_vs_dca |-> 0, pl_vs_dca_pct |-> RatOfInt(0)]

\* years_low / years_high are None (Absent(0)) when current_mv is not positive
HouseGoal(current_mv) ==
  [current_mv |-> current_mv,
   diff_low |-> Max(0, HOUSE_TARGET_LOW - current_mv),
   diff_high |-> Max(0, HOUSE_TARGET_HIGH - current_mv),
   years_low |-> IF current_mv > 0
                 THEN estimate_years_to_target(current_mv, MONTHLY_DCA, ANNUAL_RETURN, HOUSE_TARGET_LOW)
                 ELSE Absent(0),
   years_high |-> IF current_mv > 0
                  THEN estimate_years_to_target(current_mv, MONTHLY_DCA, ANNUAL_RETURN, HOUSE_TARGET_HIGH)
                  ELSE Absent(0)]

\* compute_dashboard() with holdings_rows the list the SELECT returned, feed
\* the price feed's outcome per symbol (price_cache: one fetch per symbol) and
\* hists the historical lookup's outcome per row; ok = FALSE: the exception of
\* compute_fill_infos propagates
compute_dashboard(holdings_rows, feed, hists) ==
  LET n == Len(holdings_rows)
      etf_rows == [i \in 1..n |->
                     EtfRow(holdings_rows[i],
                            fetch_price_tw(holdings_rows[i].symbol, feed[holdings_rows[i].symbol]))]
      totals == Totals(etf_rows)
      fills == IF n > 0 THEN compute_fill_infos(etf_rows, hists)
               ELSE [ok |-> TRUE, infos |-> <<>>]
  IN  [ok |-> fills.ok,
       etfs |-> etf_rows,
       totals |-> totals,
       div_compare |-> DivCompare,
       dca_compare |-> DcaCompare(totals.total_mv),
       house_goal |-> HouseGoal(totals.total_mv),
       fill_infos |-> fills.infos]


(***************************************************************************)
(* Initial state: init_db() has created the four empty tables.             *)
(***************************************************************************)
GoalIdle ==
  [pc |-> "idle", cv |-> 0, monthly |-> 0, rate |-> ANNUAL_RETURN,
   tlow |-> 0, thigh |-> 0, low |-> Absent(0), high |-> Absent(0)]

FillIdle == [pc |-> "idle", rows |-> <<>>, ok |-> TRUE, infos |-> <<>>]

\* no call of fetch_price_tw is being followed
QuoteIdle == [pc |-> "idle", symbol |-> "", outcome |-> FeedRaise, price |-> 0]

\* no step-by-step computation of the dashboard is in flight
DashIdle ==
  [pc |-> "idle", rows |-> <<>>, etfs |-> <<>>, last_year |-> 0, this_year |-> 0, j |-> 0,
   dca_compare |-> [dca_total_all |-> 0, present |-> FALSE, profit_vs_dca |-> 0,
                    pl_vs_dca_pct |-> RatOfInt(0)],
   ok |-> TRUE, infos |-> <<>>]

EmptyDb ==
  /\ trades = {}
  /\ holdings = {}
  /\ dividends = {}
  /\ dca = {}
  /\ seq = [trades |-> 0, holdings |-> 0, dividends |-> 0, dca |-> 0]
  /\ resp = RespNone

dbVars == <<trades, holdings, dividends, dca, seq, resp>>

(***************************************************************************)
(* Request handlers (lines 1471-1895).  Each action is one request:        *)
(* the handler's reads, its write and its response.                        *)
(***************************************************************************)
\* the response of index(): the rendered dashboard, or the 500 of an
\* exception raised inside compute_dashboard
IndexResponse(tbl, holdings_rows, feed, hists) ==
  LET data == compute_dashboard(holdings_rows, feed, hists)
  IN  IF data.ok
      THEN Response("dashboard", 200,
                    [etfs |-> data.etfs, totals |-> data.totals,
                     div_compare |-> data.div_compare,
                     dca_compare |-> data.dca_compare,
                     house_goal |-> data.house_goal,
                     fill_infos |-> data.fill_infos,
                     trade_totals |-> get_trades_summary(tbl).totals])
      ELSE RespError

HeldSymbols == {h.symbol : h \in holdings}

\* GET /
IndexGet(feeds, hist_outcomes) ==
  /\ \E holdings_rows \in get_all_holdings, feed \in [HeldSymbols -> feeds],
        hists \in [1..Cardinality(holdings) -> hist_outcomes] :
       resp' = IndexResponse(trades, holdings_rows, feed, hists)
  /\ UNCHANGED <<trades, holdings, dividends, dca, seq, goal, fill, quote, dash>>

\* the trades table after the INSERT of index(), if the form passes its check
TradesAfterCreate(form) ==
  LET symbol == Strip(form.symbol)
      shares == ParseInt(form.shares)
      amount == ParseFloat(form.amount)
      reinvest == ParseFloat(form.reinvest)
      ts_value == IF Strip(form.date) # "" THEN TsAtMidnight(Strip(form.date)) ELSE NowTs
  IN  IF symbol # "" /\ shares > 0 /\ amount > 0
      THEN trades \cup {[id |-> NextId("trades"), ts |-> ts_value, symbol |-> symbol,
                          shares |-> shares, amount |-> amount, reinvest |-> reinvest]}
      ELSE trades

\* POST /
IndexPost(form, feeds, hist_outcomes) ==
  /\ TradesAfterCreate(form) # trades => NextId("trades") <= MaxId
  /\ trades' = TradesAfterCreate(form)
  /\ seq' = IF trades' # trades THEN [seq EXCEPT !.trades = NextId("trades")] ELSE seq
  /\ \E holdings_rows \in get_all_holdings, feed \in [HeldSymbols -> feeds],
        hists \in [1..Cardinality(holdings) -> hist_outcomes] :
       resp' = IndexResponse(trades', holdings_rows, feed, hists)
  /\ UNCHANGED <<holdings, dividends, dca, goal, fill, quote, dash>>

\* ---- /holdings ----
\* GET /holdings
HoldingsGet ==
  /\ resp' = RespPage("holdings")
  /\ UNCHANGED <<trades, holdings, dividends, dca, seq, goal, fill, quote, dash>>

\* the check without the test of shares
HoldingFormValidAnyShares(form) ==
  /\ Strip(form.symbol) # ""
  /\ Strip(form.name) # ""
  /\ ParseFloat(form.cost) > 0

\* if symbol and name and shares > 0 and cost > 0
HoldingFormValid(form) ==
  /\ Strip(form.symbol) # ""
  /\ Strip(form.name) # ""
  /\ ParseInt(form.shares) > 0
  /\ ParseFloat(form.cost) > 0

HoldingOfForm(id, form) ==
  [id |-> id, symbol |-> Strip(form.symbol), name |-> Strip(form.name),
   shares |-> ParseInt(form.shares), cost |-> ParseFloat(form.cost)]

\* POST /holdings
HoldingsPost(form) ==
  /\ HoldingFormValid(form) => NextId("holdings") <= MaxId
  /\ IF HoldingFormValid(form)
     THEN /\ holdings' = holdings \cup {HoldingOfForm(NextId("holdings"), form)}
          /\ seq' = [seq EXCEPT !.holdings = NextId("holdings")]
     ELSE UNCHANGED <<holdings, seq>>
  /\ resp' = RespPage("holdings")
  /\ UNCHANGED <<trades, dividends, dca, goal, fill, quote, dash>>

\* GET /holdings/edit/<id>
EditHoldingGet(id) ==
  /\ resp' = IF id \in Ids(holdings) THEN RespPage("holdings_edit") ELSE RespNotFound
  /\ UNCHANGED <<trades, holdings, dividends, dca, seq, goal, fill, quote, dash>>

\* POST /holdings/edit/<id>
EditHoldingPost(id, form) ==
  /\ IF id \notin Ids(holdings)
     THEN resp' = RespNotFound /\ UNCHANGED holdings
     ELSE IF HoldingFormValid(form)
     THEN /\ holdings' = (holdings \ {RowById(holdings, id)}) \cup {HoldingOfForm(id, form)}
          /\ resp' = RespRedirect
     ELSE resp' = RespPage("holdings_edit") /\ UNCHANGED holdings
  /\ UNCHANGED <<trades, dividends, dca, seq, goal, fill, quote, dash>>

\* POST /holdings/delete/<id>
DeleteHolding(id) ==
  /\ holdings' = {h \in holdings : h.id # id}
  /\ resp' = RespRedirect
  /\ UNCHANGED <<trades, dividends, dca, seq, goal, fill, quote, dash>>

\* ---- /dividends ----
\* GET /dividends
DividendsGet ==
  /\ resp' = RespPage("dividends")
  /\ UNCHANGED <<trades, holdings, dividends, dca, seq, goal, fill, quote, dash>>

DividendFormValid(form) ==
  /\ Strip(form.date) # ""
  /\ Strip(form.symbol) # ""
  /\ ParseFloat(form.cash) > 0

\* note if note else None (None is modelled by "")
DividendOfForm(id, form) ==
  [id |-> id, date |-> Strip(form.date), symbol |-> Strip(form.symbol),
   cash |-> ParseFloat(form.cash), note |-> Strip(form.note)]

\* POST /dividends
DividendsPost(form) ==
  /\ DividendFormValid(form) => NextId("dividends") <= MaxId
  /\ IF DividendFormValid(form)
     THEN /\ dividends' = dividends \cup {DividendOfForm(NextId("dividends"), form)}
          /\ seq' = [seq EXCEPT !.dividends = NextId("dividends")]
     ELSE UNCHANGED <<dividends, seq>>
  /\ resp' = RespPage("dividends")
  /\ UNCHANGED <<trades, holdings, dca, goal, fill, quote, dash>>

\* GET /dividends/edit/<id>
EditDividendGet(id) ==
  /\ resp' = IF id \in Ids(dividends) THEN RespPage("dividends_edit") ELSE RespNotFound
  /\ UNCHANGED <<trades, holdings, dividends, dca, seq, goal, fill, quote, dash>>

\* POST /dividends/edit/<id>
EditDividendPost(id, form) ==
  /\ IF id \notin Ids(dividends)
     THEN resp' = RespNotFound /\ UNCHANGED dividends
     ELSE IF DividendFormValid(form)
     THEN /\ dividends' = (dividends \ {RowById(dividends, id)}) \cup {DividendOfForm(id, form)}
          /\ resp' = RespRedirect
     ELSE resp' = RespPage("dividends_edit") /\ UNCHANGED dividends
  /\ UNCHANGED <<trades, holdings, dca, seq, goal, fill, quote, dash>>

\* POST /dividends/delete/<id>
DeleteDividend(id) ==
  /\ dividends' = {d \in dividends : d.id # id}
  /\ resp' = RespRedirect
  /\ UNCHANGED <<trades, holdings, dca, seq, goal, fill, quote, dash>>

\* ---- /dca ----
\* GET /dca
DcaGet ==
  /\ resp' = RespPage("dca")
  /\ UNCHANGED <<trades, holdings, dividends, dca, seq, goal, fill, quote, dash>>

DcaFormValid(form) ==
  /\ Strip(form.date) # ""
  /\ Strip(form.symbol) # ""
  /\ ParseFloat(form.amount) > 0

DcaOfForm(id, form) ==
  [id |-> id, date |-> Strip(form.date), symbol |-> Strip(form.symbol),
   amount |-> ParseFloat(form.amount)]

\* POST /dca
DcaPost(form) ==
  /\ DcaFormValid(form) => NextId("dca") <= MaxId
  /\ IF DcaFormValid(form)
     THEN /\ dca' = dca \cup {DcaOfForm(NextId("dca"), form)}
          /\ seq' = [seq EXCEPT !.dca = NextId("dca")]
     ELSE UNCHANGED <<dca, seq>>
  /\ resp' = RespPage("dca")
  /\ UNCHANGED <<trades, holdings, dividends, goal, fill, quote, dash>>

\* GET /dca/edit/<id>
EditDcaGet(id) ==
  /\ resp' = IF id \in Ids(dca) THEN RespPage("dca_edit") ELSE RespNotFound
  /\ UNCHANGED <<trades, holdings, dividends, dca, seq, goal, fill, quote, dash>>

\* POST /dca/edit/<id> as it would be if the UPDATE were an upsert and the
\* lookup of the row were skipped
EditDcaPostUpsert(id, form) ==
  /\ IF DcaFormValid(form)
     THEN /\ dca' = {r \in dca : r.id # id} \cup {DcaOfForm(id, form)}
          /\ resp' = RespRedirect
     ELSE resp' = RespPage("dca_edit") /\ UNCHANGED dca
  /\ UNCHANGED <<trades, holdings, dividends, seq, goal, fill, quote, dash>>

\* POST /dca/edit/<id>
EditDcaPost(id, form) ==
  /\ IF id \notin Ids(dca)
     THEN resp' = RespNotFound /\ UNCHANGED dca
     ELSE IF DcaFormValid(form)
     THEN /\ dca' = (dca \ {RowById(dca, id)}) \cup {DcaOfForm(id, form)}
          /\ resp' = RespRedirect
     ELSE resp' = RespPage("dca_edit") /\ UNCHANGED dca
  /\ UNCHANGED <<trades, holdings, dividends, seq, goal, fill, quote, dash>>

\* POST /dca/delete/<id>
DeleteDca(id) ==
  /\ dca' = {r \in dca : r.id # id}
  /\ resp' = RespRedirect
  /\ UNCHANGED <<trades, holdings, dividends, seq, goal, fill, quote, dash>>

\* ---- /trades ----
\* GET /trades?symbol=&year=: the listing's totals over all trades and over
\* the filtered ones
TradesPage(selected_symbol, selected_year) ==
  /\ LET rows == {t \in trades :
                    /\ Strip(selected_symbol) # "" => t.symbol = Strip(selected_symbol)
                    /\ Strip(selected_year) # "" => Prefix4(t.ts) = Strip(selected_year)}
     IN  resp' = Response("trades", 200,
                          [etfs |-> <<>>,
                           trade_totals |-> get_trades_summary(trades).totals,
                           filtered_totals |-> TradeTotals(rows)])
  /\ UNCHANGED <<trades, holdings, dividends, dca, seq, goal, fill, quote, dash>>

\* GET /trades/edit/<id>
EditTradeGet(id) ==
  /\ resp' = IF id \in Ids(trades) THEN RespPage("trades_edit") ELSE RespNotFound
  /\ UNCHANGED <<trades, holdings, dividends, dca, seq, goal, fill, quote, dash>>

\* the row UPDATE trades SET ts, shares, amount, reinvest writes: the form's
\* values are stored as parsed, without any check
TradeOfEdit(row, form) ==
  [row EXCEPT !.ts = IF Strip(form.ts) # "" THEN Strip(form.ts) ELSE NowTs,
              !.shares = ParseInt(form.shares),
              !.amount = ParseFloat(form.amount),
              !.reinvest = ParseFloat(form.reinvest)]

\* POST /trades/edit/<id>
EditTradePost(id, form) ==
  /\ IF id \notin Ids(trades)
     THEN resp' = RespNotFound /\ UNCHANGED trades
     ELSE /\ trades' = (trades \ {RowById(trades, id)})
                         \cup {TradeOfEdit(RowById(trades, id), form)}
          /\ resp' = RespRedirect
  /\ UNCHANGED <<holdings, dividends, dca, seq, goal, fill, quote, dash>>

\* POST /trades/delete/<id> as it would be if deleting a trade also removed
\* the position of the trade's symbol
DeleteTradeWithPosition(id) ==
  /\ trades' = {t \in trades : t.id # id}
  /\ holdings' = {h \in holdings : \A t \in trades : t.id = id => h.symbol # t.symbol}
  /\ resp' = RespRedirect
  /\ UNCHANGED <<dividends, dca, seq, goal, fill, quote, dash>>

\* POST /trades/delete/<id>
DeleteTrade(id) ==
  /\ trades' = {t \in trades : t.id # id}
  /\ resp' = RespRedirect
  /\ UNCHANGED <<holdings, dividends, dca, seq, goal, fill, quote, dash>>


(***************************************************************************)
(* The goal estimator as a function of its four arguments: the arguments   *)
(* are drawn from GoalValues/GoalMonthly/Rates/GoalTargets and the         *)
(* estimator is applied to the lower and then to the higher target, as     *)
(* compute_dashboard does (lines 408-409).                                 *)
(***************************************************************************)
GoalValues == {0, 1000000, 6400000, 6500000, 8000000}
GoalMonthly == {0, MONTHLY_DCA}
GoalTargets == {1000000, HOUSE_TARGET_LOW, HOUSE_TARGET_HIGH, 2000000000}

InitGoal ==
  /\ EmptyDb
  /\ fill = FillIdle
  /\ quote = QuoteIdle
  /\ dash = DashIdle
  /\ goal \in {[pc |-> "ready", cv |-> c, monthly |-> m, rate |-> r,
                tlow |-> lo, thigh |-> hi, low |-> Absent(0), high |-> Absent(0)] :
                  c \in GoalValues, m \in GoalMonthly, r \in Rates,
                  lo \in GoalTargets, hi \in GoalTargets}
  /\ goal.tlow <= goal.thigh

\* years_low = estimate_years_to_target(current_mv, ..., HOUSE_TARGET_LOW)
EstimateLow ==
  /\ goal.pc = "ready"
  /\ goal' = [goal EXCEPT !.pc = "low",
                !.low = estimate_years_to_target(goal.cv, goal.monthly, goal.rate, goal.tlow)]
  /\ UNCHANGED <<dbVars, fill, quote, dash>>

\* years_high = estimate_years_to_target(current_mv, ..., HOUSE_TARGET_HIGH)
EstimateHigh ==
  /\ goal.pc = "low"
  /\ goal' = [goal EXCEPT !.pc = "done",
                !.high = estimate_years_to_target(goal.cv, goal.monthly, goal.rate, goal.thigh)]
  /\ UNCHANGED <<dbVars, fill, quote, dash>>

NextGoal == EstimateLow \/ EstimateHigh

SpecGoal == InitGoal /\ [][NextGoal]_vars

(***************************************************************************)
(* fetch_price_tw as a function of the symbol and of what history does:    *)
(* symbols with and without a configured default, history raising,         *)
(* returning the empty frame, or a Close column of up to MaxCloses values  *)
(* of which any may be missing; the function is applied once.              *)
(***************************************************************************)
MaxCloses == 2

FeedSymbols == {"0050", "0056", "00878", "00919", "2330"}

CloseValues == {NaN, Close(15), Close(16)}

FeedOutcomes ==
  {FeedRaise, FeedData(<<>>)}
    \cup UNION {{FeedData(c) : c \in [1..n -> CloseValues]} : n \in 1..MaxCloses}

InitFeed ==
  /\ EmptyDb
  /\ goal = GoalIdle
  /\ fill = FillIdle
  /\ dash = DashIdle
  /\ quote \in {[pc |-> "ready", symbol |-> y, outcome |-> o, price |-> 0] :
                  y \in FeedSymbols, o \in FeedOutcomes}

\* price = fetch_price_tw(symbol)
FetchPrice ==
  /\ quote.pc = "ready"
  /\ quote' = [quote EXCEPT !.pc = "done",
                  !.price = fetch_price_tw(quote.symbol, quote.outcome)]
  /\ UNCHANGED <<dbVars, goal, fill, dash>>

NextFeed == FetchPrice

SpecFeed == InitFeed /\ [][NextFeed]_vars

(***************************************************************************)
(* compute_fill_infos as a function of its argument and of the dividends   *)
(* table: the rows are drawn from FillRowSeqs, the table from the tables   *)
(* dividends_page can build (non-empty date and symbol, cash > 0), and the *)
(* function is applied once.                                               *)
(***************************************************************************)
FillSymbols == {"0050", "0056"}
FillShares == {0, 100}
FillPrices == {98, 100, 103}
FillCash == {200}
HistOutcomes == {HistEmpty, HistRaise, HistClose(99), HistClose(100)}

FillRowsOf(symbol) ==
  {[symbol |-> symbol, name |-> "ETF", shares |-> n, price |-> p] :
     n \in FillShares, p \in FillPrices}

\* one row, or one row per symbol in the order of ORDER BY symbol
FillRowSeqs ==
  {<<e>> : e \in FillRowsOf("0050") \cup FillRowsOf("0056")}
    \cup {<<a, b>> : a \in FillRowsOf("0050"), b \in FillRowsOf("0056")}

NoRow == [date |-> "", symbol |-> "", cash |-> 0, note |-> ""]

DividendValues ==
  {[date |-> DateOrder[i], symbol |-> y, cash |-> c, note |-> ""] :
     i \in 1..Len(DateOrder), y \in FillSymbols, c \in FillCash}

\* the table holding row f[i] under id i, for the ids with a row
DividendTable(f) ==
  {[id |-> i, date |-> f[i].date, symbol |-> f[i].symbol, cash |-> f[i].cash,
    note |-> f[i].note] : i \in {j \in DOMAIN f : f[j] # NoRow}}

InitFill ==
  /\ trades = {}
  /\ holdings = {}
  /\ dca = {}
  /\ dividends \in {DividendTable(f) : f \in [1..MaxId -> DividendValues \cup {NoRow}]}
  /\ seq = [trades |-> 0, holdings |-> 0, dividends |-> MaxId, dca |-> 0]
  /\ resp = RespNone
  /\ goal = GoalIdle
  /\ fill \in {[pc |-> "ready", rows |-> r, ok |-> TRUE, infos |-> <<>>] : r \in FillRowSeqs}
  /\ quote = QuoteIdle
  /\ dash = DashIdle

\* fill_infos = compute_fill_infos(etf_rows)
ComputeFill ==
  /\ fill.pc = "ready"
  /\ \E hists \in [1..Len(fill.rows) -> HistOutcomes] :
       LET out == compute_fill_infos(fill.rows, hists)
       IN  fill' = [fill EXCEPT !.pc = "done", !.ok = out.ok, !.infos = out.infos]
  /\ UNCHANGED <<dbVars, goal, quote, dash>>

NextFill == ComputeFill

SpecFill == InitFill /\ [][NextFill]_vars

(***************************************************************************)
(* The trade ledger: trade create (POST /), edit, delete and the pages     *)
(* that show the ledger's totals, from the empty database.                 *)
(***************************************************************************)
Init ==
  /\ EmptyDb
  /\ goal = GoalIdle
  /\ fill = FillIdle
  /\ quote = QuoteIdle
  /\ dash = DashIdle

RowIds == 1..(MaxId + 1)

Feeds == {FeedRaise, FeedClose(15)}
Hists == {HistEmpty, HistClose(16)}

TradeForms ==
  [date : {""}, symbol : {"0050", "0056", " "}, shares : {RawInt(100), RawDec(100)},
   amount : {RawDec(2000), RawEmpty}, reinvest : {RawEmpty, RawInt(3000)}]

TradeEditForms ==
  [ts : {""}, shares : {RawInt(100), RawInt(-5)},
   amount : {RawDec(2000), RawEmpty}, reinvest : {RawEmpty, RawInt(500)}]

NextTrades ==
  \/ \E form \in TradeForms : IndexPost(form, Feeds, Hists)
  \/ IndexGet(Feeds, Hists)
  \/ \E y \in {"", "0050"}, year \in {"", "2026"} : TradesPage(y, year)
  \/ \E id \in RowIds : EditTradeGet(id)
  \/ \E id \in RowIds, form \in TradeEditForms : EditTradePost(id, form)
  \/ \E id \in RowIds : DeleteTrade(id)

SpecTrades == Init /\ [][NextTrades]_vars

(***************************************************************************)
(* The dashboard: holdings, trades and dividend events are created and the *)
(* dashboard is computed.                                                  *)
(***************************************************************************)
HoldingForms ==
  [symbol : {"0050", "0056"}, name : {"ETF"}, shares : {RawInt(100), RawInt(0)},
   cost : {RawDec(10)}]

DashTradeForms ==
  [date : {""}, symbol : {"0050", "0056"}, shares : {RawInt(100)},
   amount : {RawInt(2000)}, reinvest : {RawEmpty}]

DashDividendForms ==
  [date : {"2026-03-17"}, symbol : {"0050"}, cash : {RawInt(500)}, note : {""}]

Next ==
  \/ \E form \in HoldingForms : HoldingsPost(form)
  \/ \E form \in DashTradeForms : IndexPost(form, Feeds, Hists)
  \/ \E form \in DashDividendForms : DividendsPost(form)
  \/ IndexGet(Feeds, Hists)

Spec == Init /\ [][Next]_vars

(***************************************************************************)
(* The dividend events: create, edit and delete requests from the empty    *)
(* database, one holding form, and the dashboard that reads the events.    *)
(***************************************************************************)
DividendSymbols == {"0050", "2330"}

DividendForms ==
  [date : {"2025-09-16", "2026-03-17", ""}, symbol : DividendSymbols,
   cash : {RawInt(200), RawDec(500)}, note : {""}]

DividendEditForms ==
  [date : {"2025-09-16", "2026-03-17"}, symbol : DividendSymbols,
   cash : {RawInt(200), RawEmpty}, note : {""}]

DividendHoldingForms ==
  [symbol : {"0050"}, name : {"ETF"}, shares : {RawInt(100)}, cost : {RawDec(10)}]

NextDividends ==
  \/ \E form \in DividendHoldingForms : HoldingsPost(form)
  \/ DividendsGet
  \/ \E form \in DividendForms : DividendsPost(form)
  \/ \E id \in RowIds : EditDividendGet(id)
  \/ \E id \in RowIds, form \in DividendEditForms : EditDividendPost(id, form)
  \/ \E id \in RowIds : DeleteDividend(id)
  \/ IndexGet({FeedClose(15)}, {HistClose(16)})

SpecDividends == Init /\ [][NextDividends]_vars

(***************************************************************************)
(* The ledger next to the holdings: one holding form, trades of the held   *)
(* symbol and of a symbol without a holding, edits that store negative and *)
(* zero values, and the dashboard.                                         *)
(***************************************************************************)
LedgerHoldingForms ==
  [symbol : {"0050"}, name : {"ETF"}, shares : {RawInt(100)}, cost : {RawDec(10)}]

LedgerTradeForms ==
  [date : {""}, symbol : {"0050", "2330"}, shares : {RawInt(100)},
   amount : {RawDec(2000)}, reinvest : {RawEmpty}]

LedgerEditForms ==
  [ts : {""}, shares : {RawInt(-200), RawInt(-100), RawInt(0)},
   amount : {RawDec(-2000), RawEmpty}, reinvest : {RawEmpty}]

NextLedger ==
  \/ \E form \in LedgerHoldingForms : HoldingsPost(form)
  \/ \E form \in LedgerTradeForms : IndexPost(form, {FeedClose(15)}, {HistEmpty})
  \/ \E id \in RowIds, form \in LedgerEditForms : EditTradePost(id, form)
  \/ \E id \in RowIds : DeleteTrade(id)
  \/ IndexGet({FeedClose(15)}, {HistEmpty})

SpecLedger == Init /\ [][NextLedger]_vars

(***************************************************************************)
(* compute_dashboard as a function of the database's content: the holdings *)
(* and dividends tables are drawn from rows the schema admits (shares      *)
(* INTEGER NOT NULL, cost REAL NOT NULL), zero shares and zero cost        *)
(* included, and the dashboard is computed once.                           *)
(***************************************************************************)
DashSymbols == {"0050", "0056"}
DashShares == {0, 1000}
DashCosts == {0, 50}
DashFeeds == {FeedRaise, FeedClose(60)}

NoHolding == [symbol |-> "", name |-> "", shares |-> 0, cost |-> 0]

DashHoldingValues ==
  {[symbol |-> y, name |-> "ETF", shares |-> n, cost |-> c] :
     y \in DashSymbols, n \in DashShares, c \in DashCosts}

\* the table holding row f[i] under id i, for the ids with a row
HoldingTable(f) ==
  {[id |-> i, symbol |-> f[i].symbol, name |-> f[i].name, shares |-> f[i].shares,
    cost |-> f[i].cost] : i \in {j \in DOMAIN f : f[j] # NoHolding}}

DashDividendValues ==
  {[date |-> "2026-03-17", symbol |-> "0050", cash |-> 500, note |-> ""]}

InitDash ==
  /\ trades = {}
  /\ dca = {}
  /\ holdings \in {HoldingTable(f) : f \in [1..MaxId -> DashHoldingValues \cup {NoHolding}]}
  /\ dividends \in {DividendTable(f) : f \in [1..MaxId -> DashDividendValues \cup {NoRow}]}
  /\ seq = [trades |-> 0, holdings |-> MaxId, dividends |-> MaxId, dca |-> 0]
  /\ resp = RespNone
  /\ goal = GoalIdle
  /\ fill = FillIdle
  /\ quote = QuoteIdle
  /\ dash = DashIdle

\* GET / on that database, once
ComputeDashboard ==
  /\ resp = RespNone
  /\ IndexGet(DashFeeds, {HistClose(59)})

NextDash == ComputeDashboard

SpecDash == InitDash /\ [][NextDash]_vars

(***************************************************************************)
(* The periodic-contribution records: create, edit and delete requests     *)
(* from the empty database, one holding form, and the dashboard.           *)
(***************************************************************************)
DcaHoldingForms ==
  [symbol : {"0050"}, name : {"ETF"}, shares : {RawInt(100)}, cost : {RawDec(10)}]

DcaForms ==
  [date : {"2026-03-17", ""}, symbol : {"0050"},
   amount : {RawInt(1000), RawDec(3000), RawEmpty}]

DcaEditForms ==
  [date : {"2025-09-16"}, symbol : {"0050", " "}, amount : {RawInt(500), RawText}]

NextDca ==
  \/ \E form \in DcaHoldingForms : HoldingsPost(form)
  \/ DcaGet
  \/ \E form \in DcaForms : DcaPost(form)
  \/ \E id \in RowIds : EditDcaGet(id)
  \/ \E id \in RowIds, form \in DcaEditForms : EditDcaPost(id, form)
  \/ \E id \in RowIds : DeleteDca(id)
  \/ IndexGet({FeedClose(15)}, {HistEmpty})

SpecDca == Init /\ [][NextDca]_vars

(***************************************************************************)
(* The holdings: create, edit and delete requests with well-formed and     *)
(* ill-formed form input, from the empty database.                         *)
(***************************************************************************)
HoldingCreateForms ==
  [symbol : {"0050", "0056", " "}, name : {"ETF", ""},
   shares : {RawInt(100), RawInt(0), RawDec(100)}, cost : {RawDec(10), RawEmpty}]

HoldingEditForms ==
  [symbol : {"0050", "0056"}, name : {"ETF"},
   shares : {RawInt(200), RawInt(-5), RawText}, cost : {RawInt(12), RawInt(0)}]

NextHoldings ==
  \/ HoldingsGet
  \/ \E form \in HoldingCreateForms : HoldingsPost(form)
  \/ \E id \in RowIds : EditHoldingGet(id)
  \/ \E id \in RowIds, form \in HoldingEditForms : EditHoldingPost(id, form)
  \/ \E id \in RowIds : DeleteHolding(id)
  \/ IndexGet({FeedClose(15)}, {HistEmpty})

SpecHoldings == Init /\ [][NextHoldings]_vars

(***************************************************************************)
(* The ledger, the dividend events and the contribution records next to    *)
(* the holdings: every create, edit and delete request of the three, and   *)
(* the creation of holdings, from the empty database.                      *)
(***************************************************************************)
StoreHoldingForms ==
  [symbol : {"0050"}, name : {"ETF"}, shares : {RawInt(100)}, cost : {RawDec(10)}]

StoreTradeForms ==
  [date : {""}, symbol : {"0050"}, shares : {RawInt(100)}, amount : {RawDec(2000)},
   reinvest : {RawEmpty}]

StoreDividendForms ==
  [date : {"2026-03-17"}, symbol : {"0050"}, cash : {RawInt(500)}, note : {""}]

StoreDcaForms == [date : {"2026-03-17"}, symbol : {"0050"}, amount : {RawInt(1000)}]

FrameTradeEditForms ==
  [ts : {""}, shares : {RawInt(50)}, amount : {RawDec(2000)}, reinvest : {RawEmpty}]

FrameDividendEditForms ==
  [date : {"2026-03-17"}, symbol : {"0050"}, cash : {RawInt(200)}, note : {""}]

FrameDcaEditForms == [date : {"2026-03-17"}, symbol : {"0050"}, amount : {RawInt(500)}]

NextFrame ==
  \/ \E form \in StoreHoldingForms : HoldingsPost(form)
  \/ \E form \in StoreTradeForms : IndexPost(form, {FeedClose(15)}, {HistEmpty})
  \/ \E id \in RowIds, form \in FrameTradeEditForms : EditTradePost(id, form)
  \/ \E id \in RowIds : DeleteTrade(id)
  \/ \E form \in StoreDividendForms : DividendsPost(form)
  \/ \E id \in RowIds, form \in FrameDividendEditForms : EditDividendPost(id, form)
  \/ \E id \in RowIds : DeleteDividend(id)
  \/ \E form \in StoreDcaForms : DcaPost(form)
  \/ \E id \in RowIds, form \in FrameDcaEditForms : EditDcaPost(id, form)
  \/ \E id \in RowIds : DeleteDca(id)

SpecFrame == Init /\ [][NextFrame]_vars

(***************************************************************************)
(* The four stores together: the create, edit and delete requests of each, *)
(* with ids that are stored and ids that are not, from the empty database. *)
(* The edit forms carry the values the rows already have.                  *)
(***************************************************************************)
StoreTradeEditForms ==
  [ts : {NowTs}, shares : {RawInt(100)}, amount : {RawDec(2000)}, reinvest : {RawEmpty}]

NextStores ==
  \/ \E form \in StoreHoldingForms : HoldingsPost(form)
  \/ \E id \in RowIds : EditHoldingGet(id)
  \/ \E id \in RowIds, form \in StoreHoldingForms : EditHoldingPost(id, form)
  \/ \E id \in RowIds : DeleteHolding(id)
  \/ \E form \in StoreTradeForms : IndexPost(form, {FeedClose(15)}, {HistEmpty})
  \/ \E id \in RowIds : EditTradeGet(id)
  \/ \E id \in RowIds, form \in StoreTradeEditForms : EditTradePost(id, form)
  \/ \E id \in RowIds : DeleteTrade(id)
  \/ \E form \in StoreDividendForms : DividendsPost(form)
  \/ \E id \in RowIds : EditDividendGet(id)
  \/ \E id \in RowIds, form \in StoreDividendForms : EditDividendPost(id, form)
  \/ \E id \in RowIds : DeleteDividend(id)
  \/ \E form \in StoreDcaForms : DcaPost(form)
  \/ \E id \in RowIds : EditDcaGet(id)
  \/ \E id \in RowIds, form \in StoreDcaForms : EditDcaPost(id, form)
  \/ \E id \in RowIds : DeleteDca(id)

SpecStores == Init /\ [][NextStores]_vars

(***************************************************************************)
(* compute_dashboard query by query.  Every query function opens its own   *)
(* connection, runs one SELECT and closes it (lines 124-238), and the      *)
(* server started by app.run handles each request in its own thread, so    *)
(* the requests that write to the tables can run between two queries of    *)
(* one computation.  dash is the frame of the computation in flight.       *)
(***************************************************************************)
RaceFeeds == {FeedClose(15)}
RaceHists == {HistClose(16)}

RaceDividendForms ==
  [date : {"2025-09-16", "2026-03-17"}, symbol : {"0050"}, cash : {RawInt(500)},
   note : {""}]

\* the price of price_cache for a symbol fetched before, a fetch otherwise
CachedPrices(etf_rows, symbol) ==
  IF \E k \in 1..Len(etf_rows) : etf_rows[k].symbol = symbol
  THEN {etf_rows[k].price : k \in {i \in 1..Len(etf_rows) : etf_rows[i].symbol = symbol}}
  ELSE {fetch_price_tw(symbol, o) : o \in RaceFeeds}

\* holdings_rows = list(get_all_holdings())
DashBegin ==
  /\ dash.pc = "idle"
  /\ \E q \in get_all_holdings : dash' = [dash EXCEPT !.pc = "rows", !.rows = q]
  /\ UNCHANGED <<dbVars, goal, fill, quote>>

\* one iteration of the loop over holdings_rows: the price, the query
\* get_dividends_total(symbol) and the row appended
DashRow ==
  /\ dash.pc = "rows"
  /\ Len(dash.etfs) < Len(dash.rows)
  /\ LET h == dash.rows[Len(dash.etfs) + 1]
     IN  \E price \in CachedPrices(dash.etfs, h.symbol) :
           dash' = [dash EXCEPT !.etfs = Append(dash.etfs, EtfRow(h, price))]
  /\ UNCHANGED <<dbVars, goal, fill, quote>>

\* div_last_year = get_dividends_total_by_year(last_year)
DashLastYear ==
  /\ dash.pc = "rows"
  /\ Len(dash.etfs) = Len(dash.rows)
  /\ dash' = [dash EXCEPT !.pc = "this_year",
                 !.last_year = get_dividends_total_by_year(CurrentYear - 1)]
  /\ UNCHANGED <<dbVars, goal, fill, quote>>

\* div_this_year = get_dividends_total_by_year(current_year)
DashThisYear ==
  /\ dash.pc = "this_year"
  /\ dash' = [dash EXCEPT !.pc = "dca",
                 !.this_year = get_dividends_total_by_year(CurrentYear)]
  /\ UNCHANGED <<dbVars, goal, fill, quote>>

\* dca_total_all = get_dca_total() and the comparison
DashDca ==
  /\ dash.pc = "dca"
  /\ dash' = [dash EXCEPT !.pc = "fill", !.j = 1,
                 !.dca_compare = DcaCompare(Totals(dash.etfs).total_mv)]
  /\ UNCHANGED <<dbVars, goal, fill, quote>>

\* one iteration of the loop of compute_fill_infos over etf_rows: the query
\* get_last_dividend_event(symbol) and the historical lookup
DashFillRow ==
  /\ dash.pc = "fill"
  /\ dash.j <= Len(dash.etfs)
  /\ \E hist \in RaceHists :
       LET step == FillRow(dash.etfs[dash.j], hist)
       IN  dash' = IF step.kind = "raise"
                   THEN [dash EXCEPT !.pc = "done", !.ok = FALSE, !.infos = <<>>]
                   ELSE IF step.kind = "skip"
                   THEN [dash EXCEPT !.j = dash.j + 1]
                   ELSE [dash EXCEPT !.j = dash.j + 1,
                                     !.infos = Append(dash.infos, step.info)]
  /\ UNCHANGED <<dbVars, goal, fill, quote>>

\* return {...}
DashReturn ==
  /\ dash.pc = "fill"
  /\ dash.j > Len(dash.etfs)
  /\ dash' = [dash EXCEPT !.pc = "done"]
  /\ UNCHANGED <<dbVars, goal, fill, quote>>

NextRace ==
  \/ DashBegin
  \/ DashRow
  \/ DashLastYear
  \/ DashThisYear
  \/ DashDca
  \/ DashFillRow
  \/ DashReturn
  \/ \E form \in StoreHoldingForms : HoldingsPost(form)
  \/ \E form \in RaceDividendForms : DividendsPost(form)
  \/ \E id \in RowIds : DeleteDividend(id)

SpecRace == Init /\ [][NextRace]_vars

(***************************************************************************)
(* Claims about the position merge and the ledger.                         *)
(***************************************************************************)
\* the ledger aggregate of a symbol: the sums of its trades' share deltas and
\* cash amounts
LedgerShares(symbol) ==
  LET rows == {t \in trades : t.symbol = symbol}
  IN  SumOver(rows, [t \in rows |-> t.shares])

LedgerAmount(symbol) ==
  LET rows == {t \in trades : t.symbol = symbol}
  IN  SumOver(rows, [t \in rows |-> t.amount])

\* C1: for every held instrument with base shares S0 and base cost C0 whose
\* ledger aggregate (dS, dA) is not all-zero and gives S0 + dS > 0 and
\* S0 * C0 + dA > 0, the dashboard's row has shares S0 + dS, cost basis
\* S0 * C0 + dA (average cost (S0 * C0 + dA) / (S0 + dS)) and market value
\* (S0 + dS) * price.
C1_MergedPosition ==
  resp.kind = "dashboard" =>
    \A h \in holdings :
      LET dS == LedgerShares(h.symbol)
          dA == LedgerAmount(h.symbol)
      IN  ((dS # 0 \/ dA # 0) /\ h.shares + dS > 0 /\ h.shares * h.cost + dA > 0) =>
            \E i \in 1..Len(resp.data.etfs) :
              LET row == resp.data.etfs[i]
              IN  /\ row.symbol = h.symbol
                  /\ row.shares = h.shares + dS
                  /\ row.cost_total = h.shares * h.cost + dA
                  /\ row.mv = (h.shares + dS) * row.price

\* C2: after any sequence of trade create, edit and delete requests, every
\* stored ledger entry has 0 <= reinvest <= amount.
C2_ReinvestWithinAmount ==
  \A t \in trades : 0 <= t.reinvest /\ t.reinvest <= t.amount

\* C3: after any sequence of trade create, edit and delete requests, every
\* stored ledger entry has a non-negative share delta, so no symbol's
\* aggregate share delta is negative.
C3_SharesNonNegative ==
  /\ \A t \in trades : t.shares >= 0
  /\ \A t \in trades : LedgerShares(t.symbol) >= 0

(***************************************************************************)
(* Claims about the fill-ratio computation (checked under SpecFill).       *)
(***************************************************************************)
FillInfosOf(symbol) == {k \in 1..Len(fill.infos) : fill.infos[k].symbol = symbol}

\* C8: every instrument passed to the fill-ratio computation gives one fill
\* record or is skipped silently: with a share count that is not positive,
\* without a dividend event, or without a pre-ex close from the historical
\* lookup (also when the lookup fails on a stored dividend date) it is left
\* out of the output, and no error propagates to the caller.
C8_SkipNeverError ==
  fill.pc = "done" =>
    /\ fill.ok
    /\ \A i \in 1..Len(fill.rows) :
         LET e == fill.rows[i]
         IN  /\ Cardinality(FillInfosOf(e.symbol)) <= 1
             /\ (e.shares <= 0 \/ \A d \in dividends : d.symbol # e.symbol)
                  => FillInfosOf(e.symbol) = {}

\* the row and the dividend event a fill record was computed from
FillSourceOf(f) ==
  {<<i, d>> \in (1..Len(fill.rows)) \X dividends :
     /\ fill.rows[i].symbol = f.symbol
     /\ fill.rows[i].price = f.now_price
     /\ d.symbol = f.symbol
     /\ d.date = f.last_date
     /\ \A o \in dividends : o.symbol = f.symbol => DateRank(o.date) <= DateRank(d.date)}

\* C9: for every emitted fill record, div_per_share = last_event.cash / shares
\* and fill_ratio = 100 * (current_price - (pre_ex_close - div_per_share)) /
\* div_per_share when div_per_share > 0; when current_price equals
\* pre_ex_close - div_per_share the ratio is 0 and the gap is div_per_share.
C9_FillRatioFormula ==
  (fill.pc = "done" /\ fill.ok) =>
    \A k \in 1..Len(fill.infos) :
      LET f == fill.infos[k]
      IN  \E src \in FillSourceOf(f) :
            LET shares == fill.rows[src[1]].shares
                cash == src[2].cash
                dps == f.div_per_share
                ratio == f.fill_ratio
            IN  /\ shares > 0
                /\ dps[1] * shares = cash * dps[2]
                /\ cash > 0 =>
                     ratio[1] * cash
                       = 100 * ((f.now_price - f.pre_close) * shares + cash) * ratio[2]
                /\ (f.now_price * shares = f.pre_close * shares - cash) =>
                     /\ ratio = <<0, 1>>
                     /\ f.gap_to_fill * shares = cash

C9_Witness ==
  /\ fill.pc = "done" /\ fill.ok
  /\ \E k \in 1..Len(fill.infos) :
       /\ fill.infos[k].pre_close = 100
       /\ fill.infos[k].div_per_share = <<2, 1>>
       /\ fill.infos[k].now_price = 98
       /\ fill.infos[k].fill_ratio = <<0, 1>>
       /\ fill.infos[k].gap_to_fill = 2

\* C10: for every emitted fill record, gap_to_fill = max(0, pre_ex_close -
\* current_price), never negative; when current_price >= pre_ex_close the gap
\* is 0 and (for div_per_share > 0) the ratio is >= 100, exactly 100 when
\* current_price = pre_ex_close.
C10_GapClipped ==
  (fill.pc = "done" /\ fill.ok) =>
    \A k \in 1..Len(fill.infos) :
      LET f == fill.infos[k]
          diff == f.pre_close - f.now_price
      IN  /\ f.gap_to_fill >= 0
          /\ f.gap_to_fill >= diff
          /\ f.gap_to_fill \in {0, diff}
          /\ f.now_price >= f.pre_close =>
               /\ f.gap_to_fill = 0
               /\ f.div_per_share[1] > 0 => f.fill_ratio[1] >= 100 * f.fill_ratio[2]
               /\ f.now_price = f.pre_close => f.fill_ratio = <<100, 1>>

C10_Witness ==
  /\ fill.pc = "done" /\ fill.ok
  /\ \E k \in 1..Len(fill.infos) :
       /\ fill.infos[k].pre_close = 100
       /\ fill.infos[k].now_price = 100
       /\ fill.infos[k].fill_ratio = <<100, 1>>
       /\ fill.infos[k].gap_to_fill = 0
  /\ \E k \in 1..Len(fill.infos) :
       /\ fill.infos[k].now_price > fill.infos[k].pre_close
       /\ fill.infos[k].gap_to_fill = 0

(***************************************************************************)
(* Claims about the goal estimator (checked under SpecGoal).               *)
(***************************************************************************)
\* the estimator's results computed so far, each with its target
GoalResults ==
  (IF goal.pc \in {"low", "done"} THEN {<<goal.tlow, goal.low>>} ELSE {})
    \cup (IF goal.pc = "done" THEN {<<goal.thigh, goal.high>>} ELSE {})

GoalFv(yq) == FvTotal(goal.cv, goal.monthly, goal.rate, yq)

\* C4: the estimator returns the smallest n of the scan sequence 0, 0.25, ...,
\* 80 with FV(n) >= target, rounded to one decimal; it returns absent exactly
\* when no n of the sequence has FV(n) >= target; the scan takes at most 321
\* steps.
C4_FirstQuarterReachingTarget ==
  \A tr \in GoalResults :
    LET target == tr[1]
        res == tr[2]
    IN  /\ res.iters <= 321
        /\ res.present =>
             /\ res.yq \in 0..(4 * 80)
             /\ GoalFv(res.yq) >= target
             /\ \A j \in 0..(res.yq - 1) : GoalFv(j) < target
             /\ 4 * res.tenths - 10 * res.yq \in -2..2
        /\ ~res.present => \A j \in 0..(4 * 80) : GoalFv(j) < target

C4_Witness ==
  /\ goal.pc = "done"
  /\ goal.low.present /\ goal.low.yq > 4
  /\ ~goal.high.present /\ goal.high.iters = 321

\* C5 as claimed: every returned value is a multiple of 0.25 (in tenths: a
\* multiple of 2.5, so a multiple of 5).
C5_MultipleOfQuarter ==
  \A tr \in GoalResults : tr[2].present => tr[2].tenths % 5 = 0

\* C5 as amended: every returned value is the multiple of 0.25 at which the
\* scan stopped, rounded to one decimal with ties to the even tenth; it is a
\* multiple of 0.25 itself exactly at the even step indices.
C5_RoundedMultipleOfQuarter ==
  \A tr \in GoalResults :
    LET res == tr[2]
        err == 4 * res.tenths - 10 * res.yq
    IN  res.present =>
          /\ res.yq \in 0..(4 * 80)
          /\ err \in -2..2
          /\ err # 0 => res.tenths % 2 = 0
          /\ res.tenths % 5 = 0 <=> res.yq % 2 = 0

C5_Witness ==
  /\ goal.pc = "done"
  /\ goal.high.present /\ goal.high.yq % 2 = 1
  /\ goal.high.tenths % 5 # 0

\* C6: for fixed current value, contribution and rate > 0 and targets
\* tlow <= thigh: if the result for thigh is present, the result for tlow is
\* present and not greater; if the result for tlow is absent, so is the
\* result for thigh.
C6_MonotoneInTarget ==
  (goal.pc = "done" /\ goal.rate > 0 /\ goal.tlow <= goal.thigh) =>
    /\ goal.high.present =>
         (goal.low.present /\ goal.low.tenths <= goal.high.tenths)
    /\ ~goal.low.present => ~goal.high.present

C6_Witness ==
  /\ goal.pc = "done"
  /\ goal.tlow < goal.thigh
  /\ goal.low.present /\ goal.high.present
  /\ 0 < goal.low.tenths /\ goal.low.tenths < goal.high.tenths

\* C7: whenever current_value >= target the estimator returns 0.0 on its
\* first iteration.
C7_ImmediateSuccess ==
  \A tr \in GoalResults :
    goal.cv >= tr[1] => (tr[2].present /\ tr[2].tenths = 0 /\ tr[2].iters = 1)

C7_Witness ==
  /\ goal.pc = "done"
  /\ goal.cv = 8000000 /\ goal.monthly = 5000 /\ goal.rate = 600
  /\ goal.tlow = 6500000
  /\ goal.low.present /\ goal.low.tenths = 0

(***************************************************************************)
(* Claims about the dividend queries (checked under SpecDividends).        *)
(***************************************************************************)
\* e is an event of symbol y with the greatest date string, and among those
\* of that date the greatest id
IsLastEvent(e, y) ==
  /\ e \in dividends
  /\ e.symbol = y
  /\ \A o \in dividends :
       o.symbol = y =>
         \/ DateRank(o.date) < DateRank(e.date)
         \/ (o.date = e.date /\ o.id <= e.id)

\* C11: the last dividend event of a symbol is its stored event with the
\* greatest date string, ties on the date going to the greatest id, and it is
\* absent exactly when the symbol has no stored event; the fill records of the
\* dashboard are built from that event.
C11_LastDividendEvent ==
  /\ \A y \in DividendSymbols :
       LET last == get_last_dividend_event(y)
       IN  /\ (last = <<>>) <=> ({e \in dividends : e.symbol = y} = {})
           /\ last # <<>> => IsLastEvent(last[1], y)
  /\ resp.kind = "dashboard" =>
       \A k \in 1..Len(resp.data.fill_infos) :
         LET f == resp.data.fill_infos[k]
         IN  \E e \in dividends, i \in 1..Len(resp.data.etfs) :
               /\ IsLastEvent(e, f.symbol)
               /\ resp.data.etfs[i].symbol = f.symbol
               /\ f.last_date = e.date
               /\ f.div_per_share = Rat(e.cash, resp.data.etfs[i].shares)

\* two events of the held symbol on one date with different cash, and a
\* dashboard with a fill record
C11_Witness ==
  /\ resp.kind = "dashboard"
  /\ Len(resp.data.fill_infos) > 0
  /\ \E a, b \in dividends :
       /\ a.symbol = "0050" /\ b.symbol = "0050"
       /\ a.date = b.date /\ a.id < b.id /\ a.cash # b.cash

\* the cash of the event stored under id i if it satisfies P, else 0
CashIf(i, P(_)) ==
  IF \E d \in dividends : d.id = i /\ P(d)
  THEN (CHOOSE d \in dividends : d.id = i).cash
  ELSE 0

\* the sum of cash over the stored events that satisfy P
CashSum(P(_)) == SumSeq([i \in RowIds |-> CashIf(i, P)], MaxId + 1)

\* C12: the per-symbol dividend total is the sum of cash over exactly the
\* stored events of that symbol, 0 when there are none; the dashboard row of
\* a symbol shows that total.
C12_TotalBySymbol ==
  /\ \A y \in DividendSymbols \cup {"0056"} :
       LET OfSymbol(d) == d.symbol = y
       IN  /\ get_dividends_total(y) = CashSum(OfSymbol)
           /\ (\A d \in dividends : d.symbol # y) => get_dividends_total(y) = 0
  /\ resp.kind = "dashboard" =>
       \A i \in 1..Len(resp.data.etfs) :
         LET OfRow(d) == d.symbol = resp.data.etfs[i].symbol
         IN  resp.data.etfs[i].div_total = CashSum(OfRow)

\* one event of the held symbol and one of another symbol: the row's total is
\* the first one's cash
C12_Witness ==
  /\ resp.kind = "dashboard"
  /\ \E a, b \in dividends, i \in 1..Len(resp.data.etfs) :
       /\ a.symbol = "0050" /\ b.symbol = "2330"
       /\ resp.data.etfs[i].symbol = "0050"
       /\ resp.data.etfs[i].div_total = a.cash

\* C13: the per-year dividend total is the sum of cash over exactly the stored
\* events whose date starts with the four characters of the year, whatever
\* their symbol (held or not), 0 when there are none; the dashboard compares
\* the totals of the current and the last year.
C13_TotalByYear ==
  /\ \A year \in {CurrentYear - 1, CurrentYear} :
       LET InYear(d) == Prefix4(d.date) = YearStr(year)
       IN  /\ get_dividends_total_by_year(year) = CashSum(InYear)
           /\ (\A d \in dividends : ~InYear(d)) => get_dividends_total_by_year(year) = 0
  /\ resp.kind = "dashboard" =>
       LET InThisYear(d) == Prefix4(d.date) = YearStr(CurrentYear)
           InLastYear(d) == Prefix4(d.date) = YearStr(CurrentYear - 1)
       IN  /\ resp.data.div_compare.div_this_year = CashSum(InThisYear)
           /\ resp.data.div_compare.div_last_year = CashSum(InLastYear)

\* an event of this year for a symbol without a holding is counted, next to
\* an event of last year
C13_Witness ==
  /\ resp.kind = "dashboard"
  /\ Len(resp.data.etfs) > 0
  /\ \E a, b \in dividends :
       /\ a.symbol = "2330" /\ a.date = "2026-03-17" /\ b.date = "2025-09-16"
       /\ resp.data.div_compare.div_this_year = a.cash
       /\ resp.data.div_compare.div_last_year = b.cash

\* the dividends table had its events been created in another order: the
\* same events under permuted ids
CreatedInOrder(p) == {[d EXCEPT !.id = p[d.id]] : d \in dividends}

RowsOf(r) == {r.data.etfs[i] : i \in 1..Len(r.data.etfs)}

\* the trades of tbl whose symbol has a holding
HeldTrades(tbl) == {t \in tbl : t.symbol \in HeldSymbols}

\* the dashboard shows one row per holdings row and no other row
RowPerHolding ==
  resp.kind = "dashboard" =>
    /\ Len(resp.data.etfs) = Cardinality(holdings)
    /\ \A h \in holdings : \E row \in RowsOf(resp) : row.symbol = h.symbol
    /\ \A row \in RowsOf(resp) : row.symbol \in HeldSymbols

\* from one dashboard to the next, with the same holdings and dividend
\* events and the same trades of held symbols, the rows are the same
UnheldTradesIgnored ==
  (/\ resp.kind = "dashboard" /\ resp'.kind = "dashboard"
   /\ holdings' = holdings /\ dividends' = dividends
   /\ HeldTrades(trades') = HeldTrades(trades))
    => RowsOf(resp') = RowsOf(resp)

\* C15: every symbol of the holdings has a row on the dashboard, and a ledger
\* entry whose symbol has no holding is ignored: it creates no row and
\* changes no row.
C15_UnheldSymbolIgnored == [](RowPerHolding) /\ [][UnheldTradesIgnored]_vars

\* a dashboard of one or more holdings with a trade of a symbol that has no
\* holding
C15_Witness ==
  /\ resp.kind = "dashboard"
  /\ holdings # {}
  /\ Len(resp.data.etfs) = Cardinality(holdings)
  /\ \E t \in trades : t.symbol \notin HeldSymbols

\* the dashboard shows the base position of holding h: its shares, its cost
\* basis shares * cost and the market value of its shares
BaseRowShown(h) ==
  \E row \in RowsOf(resp) :
    /\ row.symbol = h.symbol
    /\ row.shares = h.shares
    /\ row.cost_total = h.shares * h.cost
    /\ row.mv = h.shares * row.price

\* C16: a base position whose ledger aggregate is all-zero (no trades, or
\* share and cash deltas that sum to 0) is shown unchanged on the dashboard.
C16_MergeIdentity ==
  resp.kind = "dashboard" =>
    \A h \in holdings :
      (LedgerShares(h.symbol) = 0 /\ LedgerAmount(h.symbol) = 0) => BaseRowShown(h)

\* a held symbol with trades whose deltas sum to zero
C16_Witness ==
  /\ resp.kind = "dashboard"
  /\ \E h \in holdings :
       /\ \E t \in trades : t.symbol = h.symbol
       /\ LedgerShares(h.symbol) = 0 /\ LedgerAmount(h.symbol) = 0
       /\ BaseRowShown(h)

\* C17: when the ledger aggregate would make the merged share count or the
\* merged cost total non-positive, the dashboard shows the base position; no
\* request fails and no row has a negative share count.
C17_DegenerateMergeGuard ==
  /\ resp.kind # "error"
  /\ resp.kind = "dashboard" =>
       /\ \A h \in holdings :
            (\/ h.shares + LedgerShares(h.symbol) <= 0
             \/ h.shares * h.cost + LedgerAmount(h.symbol) <= 0) => BaseRowShown(h)
       /\ \A row \in RowsOf(resp) : row.shares >= 0

\* the ledger drives the merged share count of a holding to exactly 0
C17_Witness ==
  /\ resp.kind = "dashboard"
  /\ \E h \in holdings :
       /\ h.shares + LedgerShares(h.symbol) = 0
       /\ \E row \in RowsOf(resp) : row.symbol = h.symbol /\ row.shares = h.shares

(***************************************************************************)
(* Claims about the dashboard's rows and totals (checked under SpecDash).  *)
(***************************************************************************)
\* C18: a dashboard row whose cost basis is 0 has both profit percentages
\* (without and with dividends) equal to 0, the two portfolio percentages are
\* 0 when the total cost is 0, and the request does not fail.
C18_PercentageSafety ==
  /\ resp.kind # "error"
  /\ resp.kind = "dashboard" =>
       /\ \A row \in RowsOf(resp) :
            row.cost_total = 0 =>
              row.pl_pct = RatOfInt(0) /\ row.pl_with_div_pct = RatOfInt(0)
       /\ resp.data.totals.total_cost = 0 =>
            /\ resp.data.totals.total_pl_pct = RatOfInt(0)
            /\ resp.data.totals.total_pl_with_div_pct = RatOfInt(0)

\* a row with cost basis 0 and a profit that is not 0, in a portfolio whose
\* total cost is 0
C18_Witness ==
  /\ resp.kind = "dashboard"
  /\ resp.data.totals.total_cost = 0
  /\ resp.data.totals.total_profit_with_div > 0
  /\ \E row \in RowsOf(resp) :
       row.cost_total = 0 /\ row.profit > 0 /\ row.pl_pct = RatOfInt(0)

\* the sum over the dashboard's rows of the field f picks
RowSum(f(_)) ==
  LET n == Len(resp.data.etfs)
  IN  SumOver(1..n, [i \in 1..n |-> f(resp.data.etfs[i])])

\* C19: the portfolio totals are the sums over the dashboard's rows of
\* cost_total, mv, profit, div_total and profit_with_div.
C19_TotalsAreRowSums ==
  resp.kind = "dashboard" =>
    LET Cost(row) == row.cost_total
        Mv(row) == row.mv
        Profit(row) == row.profit
        Div(row) == row.div_total
        ProfitWithDiv(row) == row.profit_with_div
        t == resp.data.totals
    IN  /\ t.total_cost = RowSum(Cost)
        /\ t.total_mv = RowSum(Mv)
        /\ t.total_profit = RowSum(Profit)
        /\ t.total_dividends = RowSum(Div)
        /\ t.total_profit_with_div = RowSum(ProfitWithDiv)

\* two rows with different market values, a profit and dividends
C19_Witness ==
  /\ resp.kind = "dashboard"
  /\ Len(resp.data.etfs) = 2
  /\ resp.data.etfs[1].mv # resp.data.etfs[2].mv
  /\ resp.data.etfs[1].cost_total > 0 /\ resp.data.etfs[2].cost_total > 0
  /\ resp.data.totals.total_dividends > 0
  /\ resp.data.totals.total_profit = resp.data.etfs[1].profit + resp.data.etfs[2].profit

\* the database of the example: one holding (shares 1000, cost 50), no
\* trades, one dividend event of cash 500 for it, and the price 60
SingleHoldingExample ==
  /\ resp.kind = "dashboard"
  /\ trades = {}
  /\ Cardinality(holdings) = 1 /\ Cardinality(dividends) = 1
  /\ \A h \in holdings :
       /\ h.shares = 1000 /\ h.cost = 50
       /\ \A d \in dividends : d.symbol = h.symbol /\ d.cash = 500
  /\ Len(resp.data.etfs) = 1
  /\ resp.data.etfs[1].price = 60

\* C20: for a single holding (shares 1000, cost 50) with no trades, price 60
\* and one dividend event of cash 500, the row is cost_total 50000, mv 60000,
\* profit 10000, div_total 500, profit_with_div 10500, pl_with_div_pct 21.0.
C20_SingleHoldingRow ==
  SingleHoldingExample =>
    LET row == resp.data.etfs[1]
    IN  /\ row.cost_total = 50000
        /\ row.mv = 60000
        /\ row.profit = 10000
        /\ row.div_total = 500
        /\ row.profit_with_div = 10500
        /\ row.pl_with_div_pct = RatOfInt(21)

C20_Witness ==
  /\ SingleHoldingExample
  /\ resp.data.etfs[1].pl_with_div_pct = RatOfInt(21)
  /\ resp.data.totals.total_profit_with_div = 10500

(***************************************************************************)
(* Claims about the goal-progress figures (checked under Spec).            *)
(***************************************************************************)
\* the time-to-target y shown on the dashboard is the estimator's result e:
\* both absent, or both the same number of tenths of a year
SameEstimate(y, e) ==
  /\ y.present = e.present
  /\ y.present => y.tenths = e.tenths

\* C21: for every total market value, 0 included, the shortfall to each
\* threshold is max(0, threshold - market value), never negative, and each
\* time-to-target is the goal estimator's result for (market value,
\* MONTHLY_DCA, ANNUAL_RETURN, threshold).
C21_GoalProgress ==
  resp.kind = "dashboard" =>
    LET g == resp.data.house_goal
        mv == resp.data.totals.total_mv
    IN  /\ g.current_mv = mv
        /\ g.diff_low = Max(0, HOUSE_TARGET_LOW - mv) /\ g.diff_low >= 0
        /\ g.diff_high = Max(0, HOUSE_TARGET_HIGH - mv) /\ g.diff_high >= 0
        /\ SameEstimate(g.years_low,
                        estimate_years_to_target(mv, MONTHLY_DCA, ANNUAL_RETURN,
                                                 HOUSE_TARGET_LOW))
        /\ SameEstimate(g.years_high,
                        estimate_years_to_target(mv, MONTHLY_DCA, ANNUAL_RETURN,
                                                 HOUSE_TARGET_HIGH))

(***************************************************************************)
(* Claims about the contribution comparison (checked under SpecDca).       *)
(***************************************************************************)
\* the sum of amount over the stored contribution records
ContributionTotal ==
  SumSeq([i \in RowIds |-> IF i \in Ids(dca) THEN RowById(dca, i).amount ELSE 0],
         MaxId + 1)

\* C22: the contribution-vs-market-value difference and its percentage are
\* present only when the total recorded contribution is positive, and when
\* present they are total_mv - contribution_total and
\* 100 * (total_mv - contribution_total) / contribution_total; the request
\* does not fail.
C22_ContributionComparison ==
  /\ resp.kind # "error"
  /\ resp.kind = "dashboard" =>
       LET c == resp.data.dca_compare
           mv == resp.data.totals.total_mv
       IN  /\ c.dca_total_all = ContributionTotal
           /\ c.present => ContributionTotal > 0
           /\ c.present =>
                /\ c.profit_vs_dca = mv - ContributionTotal
                /\ c.pl_vs_dca_pct = Rat(100 * (mv - ContributionTotal), ContributionTotal)

\* two records whose total exceeds the market value: the difference is
\* negative and present
C22_Witness ==
  /\ resp.kind = "dashboard"
  /\ Cardinality(dca) = 2
  /\ resp.data.dca_compare.present
  /\ resp.data.dca_compare.profit_vs_dca < 0
  /\ resp.data.dca_compare.pl_vs_dca_pct[1] < 0

(***************************************************************************)
(* Claims about the holdings store (checked under SpecHoldings).           *)
(***************************************************************************)
\* C24: after any sequence of holding create, edit and delete requests no two
\* stored holdings have the same symbol, so the dashboard has at most one row
\* per instrument.
C24_UniqueSymbol ==
  /\ \A a, b \in holdings : a.symbol = b.symbol => a = b
  /\ resp.kind = "dashboard" =>
       \A i, j \in 1..Len(resp.data.etfs) :
         resp.data.etfs[i].symbol = resp.data.etfs[j].symbol => i = j

\* the form passes the check the claim states: symbol and name not empty
\* after stripping, shares an integer above 0, cost a number above 0
WellFormedHolding(form) ==
  /\ form.symbol \notin {"", " "}
  /\ form.name \notin {"", " "}
  /\ form.shares.kind = "int" /\ form.shares.val > 0
  /\ form.cost.kind \in {"int", "dec"} /\ form.cost.val > 0

\* a create or edit request with a form that fails the check leaves the
\* holdings table as it was
IllFormedHoldingIgnored ==
  /\ \A form \in HoldingCreateForms :
       (HoldingsPost(form) /\ ~WellFormedHolding(form)) => holdings' = holdings
  /\ \A id \in RowIds, form \in HoldingEditForms :
       (EditHoldingPost(id, form) /\ ~WellFormedHolding(form)) => holdings' = holdings

\* every stored holding has a symbol and a name, shares > 0 and cost > 0
StoredHoldingsValid ==
  \A h \in holdings : h.symbol # "" /\ h.name # "" /\ h.shares > 0 /\ h.cost > 0

\* C27: after any sequence of holding create, edit and delete requests with
\* arbitrary form input every stored holding has a non-empty symbol and
\* name, shares > 0 and cost > 0, and a create or edit request that violates
\* this leaves the holdings store unchanged.
C27_HoldingsValidated == [](StoredHoldingsValid) /\ [][IllFormedHoldingIgnored]_vars

\* a stored holding that an edit has changed, after an edit form that was
\* refused
C27_Witness ==
  /\ resp = RespPage("holdings_edit")
  /\ \E h \in holdings : h.shares = 200 /\ h.cost = 12

(***************************************************************************)
(* Claims about the portfolio's dividend total (checked under              *)
(* SpecDividends).                                                         *)
(***************************************************************************)
\* C28: in every reachable state of the holdings and dividends tables the
\* portfolio's total dividends is the sum of cash over the stored dividend
\* events whose symbol is held, each such event counted once.
C28_TotalDividendsOnce ==
  resp.kind = "dashboard" =>
    LET OfHeldSymbol(d) == d.symbol \in HeldSymbols
    IN  resp.data.totals.total_dividends = CashSum(OfHeldSymbol)

(***************************************************************************)
(* Claims about the cumulative trade totals (checked under SpecTrades).    *)
(***************************************************************************)
\* the sum over the stored trades of the field f picks
TradeSum(f(_)) ==
  SumSeq([i \in RowIds |-> IF i \in Ids(trades) THEN f(RowById(trades, i)) ELSE 0],
         MaxId + 1)

\* C29: on the dashboard and on the trades page, total_amount and
\* total_reinvest are the sums over all stored trades, total_new_cash is
\* max(0, total_amount - total_reinvest) and never negative, and
\* total_amount = total_reinvest + total_new_cash.
C29_TradeTotals ==
  resp.kind \in {"dashboard", "trades"} =>
    LET Amount(t) == t.amount
        Reinvest(t) == t.reinvest
        tt == resp.data.trade_totals
    IN  /\ tt.total_amount = TradeSum(Amount)
        /\ tt.total_reinvest = TradeSum(Reinvest)
        /\ tt.total_new_cash = Max(0, tt.total_amount - tt.total_reinvest)
        /\ tt.total_new_cash >= 0
        /\ tt.total_amount = tt.total_reinvest + tt.total_new_cash

(***************************************************************************)
(* Claims about the stores the requests leave alone (C26 under SpecFrame,  *)
(* C30 under SpecStores).                                                  *)
(***************************************************************************)
\* a create, edit or delete request of the trade ledger, of the dividend
\* events or of the contribution records
LedgerDividendDcaRequest ==
  \/ \E form \in StoreTradeForms : IndexPost(form, {FeedClose(15)}, {HistEmpty})
  \/ \E id \in RowIds, form \in FrameTradeEditForms : EditTradePost(id, form)
  \/ \E id \in RowIds : DeleteTrade(id)
  \/ \E form \in StoreDividendForms : DividendsPost(form)
  \/ \E id \in RowIds, form \in FrameDividendEditForms : EditDividendPost(id, form)
  \/ \E id \in RowIds : DeleteDividend(id)
  \/ \E form \in StoreDcaForms : DcaPost(form)
  \/ \E id \in RowIds, form \in FrameDcaEditForms : EditDcaPost(id, form)
  \/ \E id \in RowIds : DeleteDca(id)

\* C26: creating, editing or deleting a trade, a dividend event or a
\* contribution record never adds, removes or changes a stored holding.
C26_HoldingsFrame ==
  [][LedgerDividendDcaRequest => holdings' = holdings]_vars

\* a holding is stored next to an edited trade, an edited contribution record
\* and a dividend table emptied again by a delete
C26_Witness ==
  /\ holdings # {}
  /\ \E t \in trades : t.shares = 50
  /\ \E r \in dca : r.amount = 500
  /\ seq.dividends >= 1
  /\ dividends = {}

StoresUnchanged == UNCHANGED <<trades, holdings, dividends, dca>>

NotFoundNoChange == resp' = RespNotFound /\ StoresUnchanged

\* C30: an edit request (GET or POST) for a holding, dividend event,
\* contribution record or trade whose id is not stored answers not-found and
\* leaves the four stores unchanged; a delete request for an id that is not
\* stored leaves the four stores unchanged.
C30_UnknownId ==
  [][\A id \in RowIds :
       /\ (/\ id \notin Ids(holdings)
           /\ \/ EditHoldingGet(id)
              \/ \E form \in StoreHoldingForms : EditHoldingPost(id, form))
          => NotFoundNoChange
       /\ (/\ id \notin Ids(dividends)
           /\ \/ EditDividendGet(id)
              \/ \E form \in StoreDividendForms : EditDividendPost(id, form))
          => NotFoundNoChange
       /\ (/\ id \notin Ids(dca)
           /\ \/ EditDcaGet(id)
              \/ \E form \in StoreDcaForms : EditDcaPost(id, form))
          => NotFoundNoChange
       /\ (/\ id \notin Ids(trades)
           /\ \/ EditTradeGet(id)
              \/ \E form \in StoreTradeEditForms : EditTradePost(id, form))
          => NotFoundNoChange
       /\ (id \notin Ids(holdings) /\ DeleteHolding(id)) => StoresUnchanged
       /\ (id \notin Ids(dividends) /\ DeleteDividend(id)) => StoresUnchanged
       /\ (id \notin Ids(dca) /\ DeleteDca(id)) => StoresUnchanged
       /\ (id \notin Ids(trades) /\ DeleteTrade(id)) => StoresUnchanged]_vars

\* a request answered not-found while each of the four stores holds a row
C30_Witness ==
  /\ resp = RespNotFound
  /\ trades # {} /\ holdings # {} /\ dividends # {} /\ dca # {}

(***************************************************************************)
(* Claims about the price feed (checked under SpecFeed).                   *)
(***************************************************************************)
\* the closes of the outcome that are not missing, oldest first
ClosesOf(outcome) ==
  IF outcome.kind = "data" THEN DropNa(outcome.closes) ELSE <<>>

\* C23: for every symbol and every outcome of the feed (a close, the empty
\* frame, only missing closes, an exception) the call returns a price: the
\* last close that is not missing if there is one, otherwise the symbol's
\* configured default.
C23_PriceFeedTotal ==
  quote.pc = "done" =>
    LET closes == ClosesOf(quote.outcome)
    IN  /\ quote.price \in Nat
        /\ closes # <<>> => quote.price = closes[Len(closes)].value
        /\ closes = <<>> => quote.price = DEFAULT_PRICES(quote.symbol)

\* a call that fell back to the configured default after history raised
C23_Witness ==
  /\ quote.pc = "done"
  /\ quote.outcome = FeedRaise
  /\ quote.symbol = "0056"
  /\ quote.price = 35

(***************************************************************************)
(* Claims about a dashboard computed while other requests write (checked   *)
(* under SpecRace).                                                        *)
(***************************************************************************)
\* the dividend tables the requests of SpecRace can build: every state the
\* table is in during a computation is one of them
RaceDividendTables ==
  {DividendTable(f) :
     f \in [1..MaxId -> {[date |-> Strip(form.date), symbol |-> Strip(form.symbol),
                           cash |-> ParseFloat(form.cash), note |-> Strip(form.note)] :
                            form \in RaceDividendForms} \cup {NoRow}]}

\* get_last_dividend_event(symbol) on the table tbl
LastEventOf(tbl, symbol) ==
  LET evs == {e \in tbl : e.symbol = symbol}
  IN  IF evs = {} THEN <<>>
      ELSE <<CHOOSE e \in evs : \A o \in evs \ {e} : DateIdDesc(e, o)>>

\* the rows' dividend totals, the two per-year totals and the fill records
\* of the finished computation are those of the one dividend table tbl
SnapshotOf(tbl) ==
  /\ \A k \in 1..Len(dash.etfs) :
       dash.etfs[k].div_total = SymbolTotal(tbl, dash.etfs[k].symbol)
  /\ dash.last_year = YearTotal(tbl, CurrentYear - 1)
  /\ dash.this_year = YearTotal(tbl, CurrentYear)
  /\ \A k \in 1..Len(dash.etfs) :
       (dash.etfs[k].shares > 0 /\ LastEventOf(tbl, dash.etfs[k].symbol) # <<>>)
         => \E i \in 1..Len(dash.infos) : dash.infos[i].symbol = dash.etfs[k].symbol
  /\ \A i \in 1..Len(dash.infos) :
       LET last_ev == LastEventOf(tbl, dash.infos[i].symbol)
       IN  /\ last_ev # <<>>
           /\ last_ev[1].date = dash.infos[i].last_date

\* C25: a dashboard computed while other requests modify the stores still
\* reflects one snapshot: its rows' dividend totals, its per-year totals and
\* its fill records correspond to one and the same state of the store.
C25_OneSnapshot ==
  (dash.pc = "done" /\ dash.ok) => \E tbl \in RaceDividendTables : SnapshotOf(tbl)

====
